---- MODULE Spec2Model ----
(***************************************************************************)
(* A model of go-paxos: a cluster of peer nodes, each hosting an acceptor, *)
(* a proposer, a learner and a seeker over one store (tables "proposal"    *)
(* and "learnt", keyed by turn id).                                        *)
(*                                                                         *)
(* Spec      the cluster in automatic mode: proposer invocations broadcast *)
(*           to every node's acceptor, requests may be lost, every request *)
(*           handler runs as one step.                                     *)
(* SpecNode  one node answering the requests of its peers, one handler at  *)
(*           a time, the store write of a handler may fail, the node may   *)
(*           crash and restart between two requests.                       *)
(* SpecConc  one node whose handlers run concurrently: each store read and *)
(*           each store write of a handler is a step of its own.           *)
(* SpecTally a proposer whose channel holds any answers of its peers, in   *)
(*           automatic or in manual mode, and its seeker's revival pass.   *)
(* SpecChan  one invocation of the proposer: the tasks that put the answers *)
(*           in its channel and the loop that takes them out.              *)
(* SpecSeek  one node answering the seekers of its peers from a learnt     *)
(*           table of several turn ids.                                    *)
(* SpecOverlap  overlapping SendPrepare invocations of one node, every     *)
(*           acceptor handling the prepare requests concurrently.          *)
(***************************************************************************)
EXTENDS Integers, Sequences, FiniteSets, TLC

\* ------------------------------------------------------------------ bounds
MaxSeq == 2
MaxClientCalls == 2
MaxHandlers == 2
MaxActive == 1
MaxTimeouts == 2
\* The learn broadcasts node PID starts in the one-node specification.
MaxGossips == 1

\* ------------------------------------------------------------ configuration
\* config.CONF.NODES: the static peer list; a node is named by its PID.
NODES == {1, 2, 3}
\* config.CONF.QUORUM as FillEmptyFields computes it.
QUORUM == Cardinality(NODES) \div 2 + 1
\* config.CONF.V_DEFAULT as FillEmptyFields computes it: "paxos@<pid>".
V_DEFAULT(pid) == <<"paxos@1", "paxos@2", "paxos@3">>[pid]
\* The turn id the cluster negotiates.
TurnIDs == {1}
\* The values a client may pass to /proposer/send_prepare ("" = none).
ClientValues == {"", "x"}
\* The sequence numbers a client passes; higher ones come from retries.
ClientSeqs == {1}
\* config.CONF.PID of the node the one-node specifications look at.
PID == 1
\* config.CONF.DB_TYPE: "sqlite", or anything else for Redis.
DB_TYPES == {"sqlite", "redis"}
\* The values the requests of peers carry in the one-node specifications.
NodeValues == {"", "x", "y"}

\* ---------------------------------------------------------------- proposal
Proposal(pid, seq, v) == [pid |-> pid, seq |-> seq, v |-> v]
EmptyProposal == Proposal(0, 0, "")

IsGreaterThan(p, other) ==
    p.seq > other.seq \/ (p.seq = other.seq /\ p.pid > other.pid)
IsLowerThan(p, other) ==
    p.seq < other.seq \/ (p.seq = other.seq /\ p.pid < other.pid)
IsEqualTo(p, other) == p.seq = other.seq /\ p.pid = other.pid
IsGEThan(p, other) == IsGreaterThan(p, other) \/ IsEqualTo(p, other)
IsLEThan(p, other) == IsLowerThan(p, other) \/ IsEqualTo(p, other)

\* ---------------------------------------------------------------- messages
Body(message, prop, lrn) == [message |-> message, proposal |-> prop, learnt |-> lrn]
\* A request whose answer has not reached the proposer's channel yet.
Pending == Body("pending", EmptyProposal, "")
\* The nil buffer sendPartialRequest puts in the channel for a silent peer;
\* the tally unmarshals nothing and works on the zero GenericMessage.
NilResponse == Body("", EmptyProposal, "")
ResponseHasLearntValue(responseMessage) == responseMessage.learnt # ""
\* No invocation whose channel is followed.
NoChannel ==
    [buf |-> <<>>, sender |-> [a \in NODES |-> "idle"], read |-> 0, tally |-> "idle"]

VARIABLES
    proposal,   \* [node][turn id]: <<>> (no row) or <<Proposal>>, v = "" is NULL
    learnt,     \* [node][turn id]: <<>> (no row) or <<value>>
    calls,      \* running SendPrepare / SendAccept invocations
    floods,     \* learn requests broadcast so far: [t, v], one per node each
    gossips,    \* history: the learn broadcasts node PID has started
    clientCalls,\* number of client-triggered invocations so far
    timeouts,   \* number of requests lost or timed out so far
    chosen,     \* history: [turn id]: values a majority answered `accept` to
    accepted,   \* history: [node][turn id]: the highest-numbered proposal
                \* answered `accept` (the latest one on equal numbers)
    promised,   \* history: [node][turn id]: the highest N answered `promise`
    lastAnswer, \* history: the request node PID answered last
    handlers,   \* SpecConc: [id]: the handlers of node PID
    dbType,     \* config.CONF.DB_TYPE
    MANUAL_MODE,\* config.CONF.MANUAL_MODE
    tallied,    \* SpecTally: history: the invocation node PID tallied last
    channel     \* SpecChan: one invocation's response buffer and its tasks

vars == <<proposal, learnt, calls, floods, gossips, clientCalls, timeouts, chosen,
          accepted, promised, lastAnswer, handlers, dbType, MANUAL_MODE, tallied,
                   channel>>

\* ----------------------------------------------------------------- queries
GetLearntValueIn(lrn, n, t) == IF lrn[n][t] = <<>> THEN "" ELSE lrn[n][t][1]
GetLearntValue(n, t) == GetLearntValueIn(learnt, n, t)

\* (proposal, ok) of the row of turn id t.
GetProposal(n, t) ==
    IF proposal[n][t] = <<>>
    THEN [p |-> EmptyProposal, ok |-> FALSE]
    ELSE [p |-> proposal[n][t][1], ok |-> TRUE]

\* The row after SQLiteSetProposal's upsert on `row`.
SQLiteSetProposal(row, p, isAcceptRequest) ==
    IF p.v # ""
    THEN IF isAcceptRequest
         THEN <<p>>
         ELSE IF row = <<>>
              THEN <<p>>
              ELSE <<Proposal(p.pid, p.seq, IF row[1].v # "" THEN row[1].v ELSE p.v)>>
    ELSE IF row = <<>>
         THEN <<Proposal(p.pid, p.seq, "")>>
         ELSE <<Proposal(p.pid, p.seq, row[1].v)>>

\* The row after RedisSetProposal on `row`.
RedisSetProposal(row, p, isAcceptRequest) ==
    IF isAcceptRequest
    THEN <<p>>
    ELSE IF row # <<>> /\ row[1].v # ""
         THEN <<Proposal(p.pid, p.seq, row[1].v)>>
         ELSE <<p>>

\* Variant of SetProposal whose prepare path writes the request's v over the
\* stored one: C11 must tell it from the store.
SetProposal_PrepareOverwrites(row, p, isAcceptRequest) == <<p>>

SetProposal(row, p, isAcceptRequest) ==
    IF dbType = "sqlite"
    THEN SQLiteSetProposal(row, p, isAcceptRequest)
    ELSE RedisSetProposal(row, p, isAcceptRequest)

SetLearntValue(lrn, n, t, v) == [lrn EXCEPT ![n][t] = <<v>>]

\* What one SetLearntValue call can come to: whether the row was written and
\* whether an error is returned.  The error returned is the one of the row
\* count that follows the write (SQLite: `err = res.Scan(&howMany)`, Redis:
\* `card, err := client.SCard`), except for Redis' first SET, which returns
\* its own error and leaves nothing written.
SetLearntValueOutcomes ==
    IF dbType = "sqlite"
    THEN {[written |-> w, err |-> e] : w \in BOOLEAN, e \in BOOLEAN}
    ELSE {[written |-> FALSE, err |-> TRUE]}
         \cup {[written |-> TRUE, err |-> e] : e \in BOOLEAN}
\* The write reaches the table and no error is returned.
StoreOK == [written |-> TRUE, err |-> FALSE]

\* ---------------------------------------------------------------- acceptor
\* Variant of ReceivePrepare that compares with IsGEThan: C7 must tell it
\* from the handler.
ReceivePrepare_GE(n, t, newP, err) ==
    LET currentV == GetLearntValue(n, t)
        old == GetProposal(n, t)
    IN  IF currentV # ""
        THEN [body |-> Body("already learnt", EmptyProposal, currentV),
              row |-> proposal[n][t]]
        ELSE IF ~old.ok \/ IsGEThan(newP, old.p)
             THEN IF err
                  THEN [body |-> Body("retry", old.p, currentV), row |-> proposal[n][t]]
                  ELSE [body |-> Body("promise", old.p, currentV),
                        row |-> SetProposal(proposal[n][t], newP, FALSE)]
             ELSE [body |-> Body("retry", old.p, currentV), row |-> proposal[n][t]]

\* Variant of ReceivePrepare without the early return on a learnt value: C9
\* must tell it from the handler.
ReceivePrepare_NoShortCircuit(n, t, newP, err) ==
    LET currentV == GetLearntValue(n, t)
        old == GetProposal(n, t)
    IN  IF ~old.ok \/ IsGreaterThan(newP, old.p)
        THEN IF err
             THEN [body |-> Body("retry", old.p, currentV), row |-> proposal[n][t]]
             ELSE [body |-> Body("promise", old.p, currentV),
                   row |-> SetProposal(proposal[n][t], newP, FALSE)]
        ELSE [body |-> Body("retry", old.p, currentV), row |-> proposal[n][t]]

\* Variant of ReceiveAccept that compares with IsGreaterThan: C8 must tell
\* it from the handler.
ReceiveAccept_GT(n, t, newP, err) ==
    LET currentV == GetLearntValue(n, t)
        old == GetProposal(n, t)
    IN  IF currentV # ""
        THEN [body |-> Body("already learnt", EmptyProposal, currentV),
              row |-> proposal[n][t]]
        ELSE IF ~old.ok \/ IsGreaterThan(newP, old.p)
             THEN IF err
                  THEN [body |-> Body("decline", old.p, currentV), row |-> proposal[n][t]]
                  ELSE [body |-> Body("accept", old.p, currentV),
                        row |-> SetProposal(proposal[n][t], newP, TRUE)]
             ELSE [body |-> Body("decline", old.p, currentV), row |-> proposal[n][t]]

\* What ReceivePrepare answers and the row it leaves, run as one step on
\* node n; err: the store refuses the write.
ReceivePrepare(n, t, newP, err) ==
    LET currentV == GetLearntValue(n, t)
        old == GetProposal(n, t)
    IN  IF currentV # ""
        THEN [body |-> Body("already learnt", EmptyProposal, currentV),
              row |-> proposal[n][t]]
        ELSE IF ~old.ok \/ IsGreaterThan(newP, old.p)
             THEN IF err
                  THEN [body |-> Body("retry", old.p, currentV), row |-> proposal[n][t]]
                  ELSE [body |-> Body("promise", old.p, currentV),
                        row |-> SetProposal(proposal[n][t], newP, FALSE)]
             ELSE [body |-> Body("retry", old.p, currentV), row |-> proposal[n][t]]

\* Variant of ReceiveAccept that does not look at the error SetProposal
\* returns: C18 must tell it from the handler.
ReceiveAccept_IgnoreErr(n, t, newP, err) ==
    LET currentV == GetLearntValue(n, t)
        old == GetProposal(n, t)
    IN  IF currentV # ""
        THEN [body |-> Body("already learnt", EmptyProposal, currentV),
              row |-> proposal[n][t]]
        ELSE IF ~old.ok \/ IsGEThan(newP, old.p)
             THEN [body |-> Body("accept", old.p, currentV),
                   row |-> IF err THEN proposal[n][t]
                           ELSE SetProposal(proposal[n][t], newP, TRUE)]
             ELSE [body |-> Body("decline", old.p, currentV), row |-> proposal[n][t]]

ReceiveAccept(n, t, newP, err) ==
    LET currentV == GetLearntValue(n, t)
        old == GetProposal(n, t)
    IN  IF currentV # ""
        THEN [body |-> Body("already learnt", EmptyProposal, currentV),
              row |-> proposal[n][t]]
        ELSE IF ~old.ok \/ IsGEThan(newP, old.p)
             THEN IF err
                  THEN [body |-> Body("decline", old.p, currentV), row |-> proposal[n][t]]
                  ELSE [body |-> Body("accept", old.p, currentV),
                        row |-> SetProposal(proposal[n][t], newP, TRUE)]
             ELSE [body |-> Body("decline", old.p, currentV), row |-> proposal[n][t]]

\* ---------------------------------------------------------------- proposer
\* A running invocation: its parameters and, per node, the answer in the
\* channel (Pending while the request is out).
NewCall(n, kind, t, seq, v) ==
    [node |-> n, kind |-> kind, t |-> t, seq |-> seq, v |-> v,
     resp |-> [a \in NODES |-> Pending]]

\* SendPrepare / SendAccept up to the broadcast: dropped when the local
\* learnt value of t is not empty, else one request per node is out.
SendPrepare(cs, n, t, seq, v) ==
    IF GetLearntValue(n, t) # "" THEN cs ELSE cs \cup {NewCall(n, "prepare", t, seq, v)}
SendAccept(cs, n, t, seq, v) ==
    IF GetLearntValue(n, t) # "" THEN cs ELSE cs \cup {NewCall(n, "accept", t, seq, v)}
\* A learn request to /learner/receive_learn of every node of NODES: its
\* Type, turn id and Body.Proposal.V.
LearnRequest(type, t, v) == [type |-> type, t |-> t, v |-> v]
\* SendLearn: one learn request per node, answers ignored.
SendLearn(ms, t, v) == ms \cup {LearnRequest("learn_request", t, v)}
\* floodLearntValue: the learner's copy of the broadcast.
floodLearntValue(ms, t, v) == ms \cup {LearnRequest("learn_flood", t, v)}

\* The loop of countAgreements over the channel ch from position i on.
\* st.learnt # "" records the early return on a response with a learnt value.
RECURSIVE AgreementsLoop(_, _, _)
AgreementsLoop(ch, i, st) ==
    IF i > Len(ch) THEN st
    ELSE LET responseMessage == ch[i]
             counted == IF responseMessage # NilResponse
                        THEN [st EXCEPT !.responseCount = @ + 1] ELSE st
             prop == responseMessage.proposal
         IN  IF ResponseHasLearntValue(responseMessage)
             THEN [counted EXCEPT !.learnt = responseMessage.learnt]
             ELSE IF responseMessage.message = "promise"
             THEN AgreementsLoop(ch, i + 1,
                    [counted EXCEPT
                        !.agreements = @ + 1,
                        !.highestPromise =
                            IF IsGreaterThan(prop, @) /\ prop.v # "" THEN prop ELSE @])
             ELSE IF responseMessage.message = "retry"
             THEN AgreementsLoop(ch, i + 1,
                    [counted EXCEPT
                        !.highestRetry = IF IsGreaterThan(prop, @) THEN prop ELSE @])
             ELSE AgreementsLoop(ch, i + 1, counted)

\* Variant of countAgreements that sends its own value whatever the promises
\* carry: C6 must tell it from the tally.
countAgreements_OwnValue(ch, pid, seq, proposedV) ==
    LET st == AgreementsLoop(ch, 1,
                [agreements |-> 0, responseCount |-> 0, learnt |-> "",
                 highestPromise |-> EmptyProposal, highestRetry |-> EmptyProposal])
    IN  IF st.learnt # ""
        THEN [next |-> "learn", seq |-> 0, v |-> st.learnt]
        ELSE IF st.agreements >= QUORUM
        THEN [next |-> "accept", seq |-> seq,
              v |-> IF proposedV = "" THEN V_DEFAULT(pid) ELSE proposedV]
        ELSE IF st.highestRetry.pid # 0 /\ st.responseCount >= QUORUM
        THEN [next |-> "prepare", seq |-> st.highestRetry.seq + 1, v |-> proposedV]
        ELSE [next |-> "none", seq |-> 0, v |-> ""]

\* Variant of countAgreements that looks at the quorum before the learnt
\* value of a response: C21 must tell it from the tally.
countAgreements_QuorumFirst(ch, pid, seq, proposedV) ==
    LET st == AgreementsLoop(ch, 1,
                [agreements |-> 0, responseCount |-> 0, learnt |-> "",
                 highestPromise |-> EmptyProposal, highestRetry |-> EmptyProposal])
    IN  IF st.agreements >= QUORUM
        THEN [next |-> "accept", seq |-> seq,
              v |-> IF st.highestPromise.v = ""
                    THEN (IF proposedV = "" THEN V_DEFAULT(pid) ELSE proposedV)
                    ELSE st.highestPromise.v]
        ELSE IF st.learnt # ""
        THEN [next |-> "learn", seq |-> 0, v |-> st.learnt]
        ELSE IF st.highestRetry.pid # 0 /\ st.responseCount >= QUORUM
        THEN [next |-> "prepare", seq |-> st.highestRetry.seq + 1, v |-> proposedV]
        ELSE [next |-> "none", seq |-> 0, v |-> ""]

\* Variant of countAgreements that retries with its own seq plus one: C23
\* must tell it from the tally.
countAgreements_RetryOwnSeq(ch, pid, seq, proposedV) ==
    LET st == AgreementsLoop(ch, 1,
                [agreements |-> 0, responseCount |-> 0, learnt |-> "",
                 highestPromise |-> EmptyProposal, highestRetry |-> EmptyProposal])
    IN  IF st.learnt # ""
        THEN [next |-> "learn", seq |-> 0, v |-> st.learnt]
        ELSE IF st.agreements >= QUORUM
        THEN [next |-> "accept", seq |-> seq,
              v |-> IF st.highestPromise.v = ""
                    THEN (IF proposedV = "" THEN V_DEFAULT(pid) ELSE proposedV)
                    ELSE st.highestPromise.v]
        ELSE IF st.highestRetry.pid # 0 /\ st.responseCount >= QUORUM
        THEN [next |-> "prepare", seq |-> seq + 1, v |-> proposedV]
        ELSE [next |-> "none", seq |-> 0, v |-> ""]

\* Variant of countAgreements that retries whatever the number of answers:
\* C24 must tell it from the tally.
countAgreements_RetryBelowQuorum(ch, pid, seq, proposedV) ==
    LET st == AgreementsLoop(ch, 1,
                [agreements |-> 0, responseCount |-> 0, learnt |-> "",
                 highestPromise |-> EmptyProposal, highestRetry |-> EmptyProposal])
    IN  IF st.learnt # ""
        THEN [next |-> "learn", seq |-> 0, v |-> st.learnt]
        ELSE IF st.agreements >= QUORUM
        THEN [next |-> "accept", seq |-> seq,
              v |-> IF st.highestPromise.v = ""
                    THEN (IF proposedV = "" THEN V_DEFAULT(pid) ELSE proposedV)
                    ELSE st.highestPromise.v]
        ELSE IF st.highestRetry.pid # 0
        THEN [next |-> "prepare", seq |-> st.highestRetry.seq + 1, v |-> proposedV]
        ELSE [next |-> "none", seq |-> 0, v |-> ""]

\* Variant of countAgreements that retries on a retry whose old proposal is
\* the null one: C27 must tell it from the tally.
countAgreements_NullRetry(ch, pid, seq, proposedV) ==
    LET st == AgreementsLoop(ch, 1,
                [agreements |-> 0, responseCount |-> 0, learnt |-> "",
                 highestPromise |-> EmptyProposal, highestRetry |-> EmptyProposal])
    IN  IF st.learnt # ""
        THEN [next |-> "learn", seq |-> 0, v |-> st.learnt]
        ELSE IF st.agreements >= QUORUM
        THEN [next |-> "accept", seq |-> seq,
              v |-> IF st.highestPromise.v = ""
                    THEN (IF proposedV = "" THEN V_DEFAULT(pid) ELSE proposedV)
                    ELSE st.highestPromise.v]
        ELSE IF st.responseCount >= QUORUM
        THEN [next |-> "prepare", seq |-> st.highestRetry.seq + 1, v |-> proposedV]
        ELSE [next |-> "none", seq |-> 0, v |-> ""]

\* Variant of countAgreements that proposes a fixed text, not the node's
\* V_DEFAULT, when neither a promise nor the client gave a value: C36 must
\* tell it from the tally.
countAgreements_LiteralDefault(ch, pid, seq, proposedV) ==
    LET st == AgreementsLoop(ch, 1,
                [agreements |-> 0, responseCount |-> 0, learnt |-> "",
                 highestPromise |-> EmptyProposal, highestRetry |-> EmptyProposal])
    IN  IF st.learnt # ""
        THEN [next |-> "learn", seq |-> 0, v |-> st.learnt]
        ELSE IF st.agreements >= QUORUM
        THEN [next |-> "accept", seq |-> seq,
              v |-> IF st.highestPromise.v = ""
                    THEN (IF proposedV = "" THEN "default" ELSE proposedV)
                    ELSE st.highestPromise.v]
        ELSE IF st.highestRetry.pid # 0 /\ st.responseCount >= QUORUM
        THEN [next |-> "prepare", seq |-> st.highestRetry.seq + 1, v |-> proposedV]
        ELSE [next |-> "none", seq |-> 0, v |-> ""]

\* What countAgreements decides on channel ch for SendPrepare(t, seq, proposedV)
\* on node pid: next = "learn" (learnAndFlood), "accept" (SendAccept(seq, v)),
\* "prepare" (SendPrepare(seq, v)) or "none".
countAgreements(ch, pid, seq, proposedV) ==
    LET st == AgreementsLoop(ch, 1,
                [agreements |-> 0, responseCount |-> 0, learnt |-> "",
                 highestPromise |-> EmptyProposal, highestRetry |-> EmptyProposal])
    IN  IF st.learnt # ""
        THEN [next |-> "learn", seq |-> 0, v |-> st.learnt]
        ELSE IF st.agreements >= QUORUM
        THEN [next |-> "accept", seq |-> seq,
              v |-> IF st.highestPromise.v = ""
                    THEN (IF proposedV = "" THEN V_DEFAULT(pid) ELSE proposedV)
                    ELSE st.highestPromise.v]
        ELSE IF st.highestRetry.pid # 0 /\ st.responseCount >= QUORUM
        THEN [next |-> "prepare", seq |-> st.highestRetry.seq + 1, v |-> proposedV]
        ELSE [next |-> "none", seq |-> 0, v |-> ""]

RECURSIVE ApprovalsLoop(_, _, _)
ApprovalsLoop(ch, i, st) ==
    IF i > Len(ch) THEN st
    ELSE LET responseMessage == ch[i]
             counted == IF responseMessage # NilResponse
                        THEN [st EXCEPT !.responseCount = @ + 1] ELSE st
             prop == responseMessage.proposal
         IN  IF ResponseHasLearntValue(responseMessage)
             THEN [counted EXCEPT !.learnt = responseMessage.learnt]
             ELSE IF responseMessage.message = "accept"
             THEN ApprovalsLoop(ch, i + 1, [counted EXCEPT !.approvals = @ + 1])
             ELSE IF responseMessage.message = "decline"
             THEN ApprovalsLoop(ch, i + 1,
                    [counted EXCEPT
                        !.highestDecline = IF IsGreaterThan(prop, @) THEN prop ELSE @])
             ELSE ApprovalsLoop(ch, i + 1, counted)

\* Variant of countApprovals that is content with one accept: C25 must tell
\* it from the tally.
countApprovals_OneAccept(ch, proposedV) ==
    LET st == ApprovalsLoop(ch, 1,
                [approvals |-> 0, responseCount |-> 0, learnt |-> "",
                 highestDecline |-> EmptyProposal])
    IN  IF st.learnt # ""
        THEN [next |-> "learn", seq |-> 0, v |-> st.learnt]
        ELSE IF st.approvals >= 1
        THEN [next |-> "sendlearn", seq |-> 0, v |-> proposedV]
        ELSE IF st.highestDecline.pid # 0 /\ st.responseCount >= QUORUM
        THEN [next |-> "prepare", seq |-> st.highestDecline.seq + 1, v |-> proposedV]
        ELSE [next |-> "none", seq |-> 0, v |-> ""]

\* Variant of countApprovals that retries without the value of the accept:
\* C26 must tell it from the tally.
countApprovals_RetryNoValue(ch, proposedV) ==
    LET st == ApprovalsLoop(ch, 1,
                [approvals |-> 0, responseCount |-> 0, learnt |-> "",
                 highestDecline |-> EmptyProposal])
    IN  IF st.learnt # ""
        THEN [next |-> "learn", seq |-> 0, v |-> st.learnt]
        ELSE IF st.approvals >= QUORUM
        THEN [next |-> "sendlearn", seq |-> 0, v |-> proposedV]
        ELSE IF st.highestDecline.pid # 0 /\ st.responseCount >= QUORUM
        THEN [next |-> "prepare", seq |-> st.highestDecline.seq + 1, v |-> ""]
        ELSE [next |-> "none", seq |-> 0, v |-> ""]

\* What countApprovals decides: next = "learn" (learnAndFlood), "sendlearn"
\* (SendLearn(v)), "prepare" (SendPrepare(seq, v)) or "none".
countApprovals(ch, proposedV) ==
    LET st == ApprovalsLoop(ch, 1,
                [approvals |-> 0, responseCount |-> 0, learnt |-> "",
                 highestDecline |-> EmptyProposal])
    IN  IF st.learnt # ""
        THEN [next |-> "learn", seq |-> 0, v |-> st.learnt]
        ELSE IF st.approvals >= QUORUM
        THEN [next |-> "sendlearn", seq |-> 0, v |-> proposedV]
        ELSE IF st.highestDecline.pid # 0 /\ st.responseCount >= QUORUM
        THEN [next |-> "prepare", seq |-> st.highestDecline.seq + 1, v |-> proposedV]
        ELSE [next |-> "none", seq |-> 0, v |-> ""]

\* The channel contents the tally of call c may read: the answers in some
\* arrival order once every request has answered or timed out, or, while
\* requests are still out, any arrived answer carrying a learnt value (the
\* loop returns on the first and what it read before is dropped).
Channels(c) ==
    {<<c.resp[a]>> : a \in {b \in NODES : ResponseHasLearntValue(c.resp[b])}}
    \cup
    (IF \A a \in NODES : c.resp[a] # Pending
     THEN {[i \in 1..Cardinality(NODES) |-> c.resp[f[i]]] : f \in Permutations(NODES)}
     ELSE {})

Decision(c, ch) ==
    IF c.kind = "prepare"
    THEN countAgreements(ch, c.node, c.seq, c.v)
    ELSE countApprovals(ch, c.v)

\* Variant of learnAndFlood that writes v over a different learnt value and
\* broadcasts it: C22 must tell it from the function.
learnAndFlood_Overwrite(n, t, v, out) ==
    IF GetLearntValue(n, t) # v
    THEN [learnt |-> IF out.written THEN SetLearntValue(learnt, n, t, v) ELSE learnt,
          msgs |-> IF out.err THEN floods ELSE SendLearn(floods, t, v),
          sent |-> IF out.err THEN 0 ELSE 1]
    ELSE [learnt |-> learnt, msgs |-> floods, sent |-> 0]

\* learnAndFlood on node n for a response carrying learnt value v: the
\* learnt table and the learn requests it leaves, and the number of
\* broadcasts it started; out: what SetLearntValue comes to.  The mode is
\* not looked at.
learnAndFlood(n, t, v, out) ==
    IF GetLearntValue(n, t) = ""
    THEN [learnt |-> IF out.written THEN SetLearntValue(learnt, n, t, v) ELSE learnt,
          msgs |-> IF out.err THEN floods ELSE SendLearn(floods, t, v),
          sent |-> IF out.err THEN 0 ELSE 1]
    ELSE [learnt |-> learnt, msgs |-> floods, sent |-> 0]

\* ----------------------------------------------------------------- learner
\* Variant of ReceiveLearn without the refusal of a different value: C13
\* must tell it from the handler.
ReceiveLearn_NoRefusal(n, t, proposedV, out) ==
    LET currentV == GetLearntValue(n, t)
        stored == IF out.written THEN SetLearntValue(learnt, n, t, proposedV)
                  ELSE learnt
    IN  IF out.err
        THEN [message |-> "Fail", learnt |-> stored, msgs |-> floods, sent |-> 0]
        ELSE IF currentV = proposedV
        THEN [message |-> "", learnt |-> stored,
              msgs |-> floods, sent |-> 0]
        ELSE [message |-> "value stored",
              learnt |-> stored,
              msgs |-> floodLearntValue(floods, t, proposedV), sent |-> 1]

\* Variant of ReceiveLearn that answers and floods without comparing the
\* value with the one already learnt: C14 must tell it from the handler.
ReceiveLearn_FloodAgain(n, t, proposedV, out) ==
    LET currentV == GetLearntValue(n, t)
        stored == IF out.written THEN SetLearntValue(learnt, n, t, proposedV)
                  ELSE learnt
    IN  IF proposedV # currentV /\ currentV # ""
        THEN [message |-> "Trying to learn a different value, please respect the algorithm.",
              learnt |-> learnt, msgs |-> floods, sent |-> 0]
        ELSE IF out.err
        THEN [message |-> "Fail", learnt |-> stored, msgs |-> floods, sent |-> 0]
        ELSE [message |-> "value stored",
              learnt |-> stored,
              msgs |-> floodLearntValue(floods, t, proposedV), sent |-> 1]

\* ReceiveLearn on node n, as one step: the answer, the learnt table and the
\* learn requests it leaves, and the number of broadcasts it started. `out` is
\* the outcome of SetLearntValue: whether its write reached the table and
\* whether it returned an error.
ReceiveLearn(n, t, proposedV, out) ==
    LET currentV == GetLearntValue(n, t)
        stored == IF out.written THEN SetLearntValue(learnt, n, t, proposedV)
                  ELSE learnt
    IN  IF proposedV # currentV /\ currentV # ""
        THEN [message |-> "Trying to learn a different value, please respect the algorithm.",
              learnt |-> learnt, msgs |-> floods, sent |-> 0]
        ELSE IF out.err
        THEN [message |-> "Fail", learnt |-> stored, msgs |-> floods, sent |-> 0]
        ELSE IF currentV = proposedV
        THEN [message |-> "", learnt |-> stored,
              msgs |-> floods, sent |-> 0]
        ELSE [message |-> "value stored",
              learnt |-> stored,
              msgs |-> floodLearntValue(floods, t, proposedV), sent |-> 1]

\* ------------------------------------------------------------------ seeker
\* GetLastTurnID: the highest turn id with a row in learnt, 0 if none.
GetLastTurnID(n) ==
    LET have == {t \in DOMAIN learnt[n] : learnt[n][t] # <<>>}
    IN  IF have = {} THEN 0 ELSE CHOOSE t \in have : \A u \in have : u <= t

\* Variant of GetDanglingProposals that returns every turn id with a proposal
\* row: C30 must tell it from the query.
GetDanglingProposals_Every(n) == {t \in TurnIDs : proposal[n][t] # <<>>}

\* GetDanglingProposals: the turn ids with a proposal row and no learnt row.
GetDanglingProposals(n) ==
    {t \in TurnIDs : proposal[n][t] # <<>> /\ learnt[n][t] = <<>>}

\* Variant of ComputeNewValuesResponse that also sends the row of the
\* requester's last turn id: C32 must tell it from the function.
ComputeNewValuesResponse_FromLast(m, req) ==
    LET have == {t \in DOMAIN learnt[m] : learnt[m][t] # <<>> /\ t >= req.last}
    IN  [t \in have |-> GetLearntValue(m, t)]

\* ComputeNewValuesResponse of node m to the request {last, missing}: the map
\* toLearn from turn ids to learnt values. A turn id without a row reads "".
ComputeNewValuesResponse(m, req) ==
    LET myLast == GetLastTurnID(m)
        value(t) == IF t \in DOMAIN learnt[m] THEN GetLearntValue(m, t) ELSE ""
        ahead == IF myLast > req.last
                 THEN {t \in DOMAIN learnt[m] : learnt[m][t] # <<>> /\ t > req.last}
                 ELSE {}
        asked == IF req.last # 0
                 THEN {req.missing[i] : i \in
                          {k \in 1..Len(req.missing) :
                              req.missing[k] <= myLast /\ value(req.missing[k]) # ""}}
                 ELSE {}
    IN  [t \in ahead \cup asked |-> value(t)]

\* learnFromDict on node n with the values of node m for turn ids ts.
learnFromDict(n, m, ts) ==
    [learnt EXCEPT ![n] =
        [t \in TurnIDs |->
            IF t \in ts /\ GetLearntValue(n, t) = "" /\ GetLearntValue(m, t) # ""
            THEN <<GetLearntValue(m, t)>>
            ELSE learnt[n][t]]]

\* ----------------------------------------------------------------- history
\* The promised history after node a answered `body` to Prepare(t, newP).
Promised(a, t, newP, body) ==
    IF body.message = "promise" /\ IsGreaterThan(newP, promised[a][t])
    THEN [promised EXCEPT ![a][t] = Proposal(newP.pid, newP.seq, "")]
    ELSE promised

\* The accepted history after node a answered `body` to Accept(t, newP).
Accepted(a, t, newP, body) ==
    IF body.message = "accept" /\ IsGEThan(newP, accepted[a][t])
    THEN [accepted EXCEPT ![a][t] = newP]
    ELSE accepted

\* The record of a request answered: what the handler read (row, lrn), the
\* request (op, t, p), whether the store refused the write, and the answer.
Answered(op, t, p, err, row, lrn, body) ==
    [op |-> op, t |-> t, p |-> p, err |-> err, row |-> row, lrn |-> lrn,
     body |-> body]
NoRequest == Answered("none", 0, EmptyProposal, FALSE, <<>>, <<>>, NilResponse)

\* The record of a tally: the invocation and what the tally decided.
Tallied(c, d) == [call |-> c, next |-> d.next, seq |-> d.seq, v |-> d.v]
NoTally == Tallied(NewCall(0, "none", 0, 0, ""), [next |-> "", seq |-> 0, v |-> ""])

\* ------------------------------------------------------------- the cluster
Init ==
    /\ proposal = [n \in NODES |-> [t \in TurnIDs |-> <<>>]]
    /\ learnt = [n \in NODES |-> [t \in TurnIDs |-> <<>>]]
    /\ calls = {}
    /\ floods = {}
    /\ gossips = 0
    /\ clientCalls = 0
    /\ timeouts = 0
    /\ chosen = [t \in TurnIDs |-> {}]
    /\ accepted = [n \in NODES |-> [t \in TurnIDs |-> EmptyProposal]]
    /\ promised = [n \in NODES |-> [t \in TurnIDs |-> EmptyProposal]]
    /\ lastAnswer = NoRequest
    /\ handlers = [i \in 1..MaxHandlers |-> NoRequest]
    /\ dbType \in DB_TYPES
    /\ MANUAL_MODE = FALSE
    /\ tallied = NoTally
    /\ channel = NoChannel

\* A client's GET /proposer/send_prepare?turn_id&seq&v on node n.
ClientSendPrepare(n, t, seq, v) ==
    /\ clientCalls < MaxClientCalls /\ Cardinality(calls) < MaxActive
    /\ clientCalls' = clientCalls + 1
    /\ calls' = SendPrepare(calls, n, t, seq, v)
    /\ UNCHANGED <<proposal, learnt, floods, gossips, timeouts, chosen, accepted, promised,
                   lastAnswer, handlers, dbType, MANUAL_MODE, tallied,
                   channel>>

\* Node a's acceptor handles the prepare request of call c and the answer
\* reaches the proposer's channel.
HandlePrepare(c, a) ==
    /\ c \in calls /\ c.kind = "prepare" /\ c.resp[a] = Pending
    /\ LET newP == Proposal(c.node, c.seq, c.v)
           r == ReceivePrepare(a, c.t, newP, FALSE)
       IN  /\ proposal' = [proposal EXCEPT ![a][c.t] = r.row]
           /\ calls' = (calls \ {c}) \cup {[c EXCEPT !.resp[a] = r.body]}
    /\ UNCHANGED <<learnt, floods, gossips, clientCalls, timeouts, chosen, accepted,
                   promised, lastAnswer, handlers, dbType, MANUAL_MODE, tallied,
                   channel>>

\* Node a's acceptor handles the accept request of call c; the value is
\* chosen once a majority of the call's requests is answered `accept`.
HandleAccept(c, a) ==
    /\ c \in calls /\ c.kind = "accept" /\ c.resp[a] = Pending
    /\ LET newP == Proposal(c.node, c.seq, c.v)
           r == ReceiveAccept(a, c.t, newP, FALSE)
           answered == [c EXCEPT !.resp[a] = r.body]
           accepts == {b \in NODES : answered.resp[b].message = "accept"}
       IN  /\ proposal' = [proposal EXCEPT ![a][c.t] = r.row]
           /\ calls' = (calls \ {c}) \cup {answered}
           /\ chosen' = IF Cardinality(accepts) >= QUORUM
                        THEN [chosen EXCEPT ![c.t] = @ \cup {c.v}]
                        ELSE chosen
    /\ UNCHANGED <<learnt, floods, gossips, clientCalls, timeouts, accepted, promised,
                   lastAnswer, handlers, dbType, MANUAL_MODE, tallied,
                   channel>>

\* The request of call c to node a is lost, or node a is silent, or the
\* request times out: nil in the channel and node a's store untouched.
Timeout(c, a) ==
    /\ c \in calls /\ c.resp[a] = Pending
    /\ timeouts < MaxTimeouts
    /\ timeouts' = timeouts + 1
    /\ calls' = (calls \ {c}) \cup {[c EXCEPT !.resp[a] = NilResponse]}
    /\ UNCHANGED <<proposal, learnt, floods, gossips, clientCalls, chosen, accepted,
                   promised, lastAnswer, handlers, dbType, MANUAL_MODE, tallied,
                   channel>>

\* The tally of call c returns: countAgreements or countApprovals on the
\* channel, then the follow-up it starts.  In manual mode the request to
\* send next is only named in the message to the user; learnAndFlood runs
\* in either mode.  out: what learnAndFlood's SetLearntValue comes to.
Tally(c, ch, out) ==
    /\ c \in calls /\ ch \in Channels(c)
    /\ LET d == Decision(c, ch)
           rest == calls \ {c}
       IN  CASE d.next = "learn" ->
                  LET r == learnAndFlood(c.node, c.t, d.v, out)
                  IN  /\ learnt' = r.learnt
                      /\ floods' = r.msgs
                      /\ gossips' = IF c.node = PID THEN gossips + r.sent ELSE gossips
                      /\ calls' = rest
             [] d.next = "accept" /\ ~MANUAL_MODE ->
                  /\ calls' = SendAccept(rest, c.node, c.t, d.seq, d.v)
                  /\ UNCHANGED <<learnt, floods, gossips>>
             [] d.next = "sendlearn" /\ ~MANUAL_MODE ->
                  /\ floods' = SendLearn(floods, c.t, d.v)
                  /\ gossips' = IF c.node = PID THEN gossips + 1 ELSE gossips
                  /\ calls' = rest
                  /\ UNCHANGED learnt
             [] d.next = "prepare" /\ ~MANUAL_MODE ->
                  /\ calls' = IF d.seq <= MaxSeq
                              THEN SendPrepare(rest, c.node, c.t, d.seq, d.v)
                              ELSE rest
                  /\ UNCHANGED <<learnt, floods, gossips>>
             [] OTHER ->
                  /\ calls' = rest
                  /\ UNCHANGED <<learnt, floods, gossips>>
    /\ UNCHANGED <<proposal, clientCalls, timeouts, chosen, accepted, promised,
                   lastAnswer, handlers, dbType, MANUAL_MODE, channel>>

\* Node n's learner handles its copy of the broadcast learn request m.  A
\* second copy to the same node would change nothing, so a broadcast is kept
\* as one entry and a step is a copy that changes the node's learnt table.
HandleLearn(n, m) ==
    /\ m \in floods
    /\ LET r == ReceiveLearn(n, m.t, m.v, StoreOK)
       IN  /\ learnt' = r.learnt
           /\ floods' = r.msgs
           /\ gossips' = IF n = PID THEN gossips + r.sent ELSE gossips
    /\ learnt' # learnt
    /\ UNCHANGED <<proposal, calls, clientCalls, timeouts, chosen, accepted,
                   promised, lastAnswer, handlers, dbType, MANUAL_MODE, tallied,
                   channel>>

\* Variant of SeekDangling whose loop runs in manual mode too: C29 must tell
\* it from the program.
SeekDangling_AnyMode(n, t) ==
    /\ clientCalls < MaxClientCalls /\ Cardinality(calls) < MaxActive
    /\ t \in GetDanglingProposals(n)
    /\ clientCalls' = clientCalls + 1
    /\ calls' = SendPrepare(calls, n, t, proposal[n][t][1].seq, proposal[n][t][1].v)
    /\ UNCHANGED <<proposal, learnt, floods, gossips, timeouts, chosen, accepted, promised,
                   lastAnswer, handlers, dbType, MANUAL_MODE, tallied,
                   channel>>

\* askForDanglingProposals on node n, run by the seeker loop that main
\* starts in automatic mode only (SEEK_ACTIVE set), revives turn id t.
SeekDangling(n, t) ==
    /\ ~MANUAL_MODE
    /\ clientCalls < MaxClientCalls /\ Cardinality(calls) < MaxActive
    /\ t \in GetDanglingProposals(n)
    /\ clientCalls' = clientCalls + 1
    /\ calls' = SendPrepare(calls, n, t, proposal[n][t][1].seq, proposal[n][t][1].v)
    /\ UNCHANGED <<proposal, learnt, floods, gossips, timeouts, chosen, accepted, promised,
                   lastAnswer, handlers, dbType, MANUAL_MODE, tallied,
                   channel>>

\* askForNewValues on node n with node m sampled: request, answer, learnFromDict.
SeekNewValues(n, m) ==
    /\ ~MANUAL_MODE
    /\ LET ts == DOMAIN ComputeNewValuesResponse(m, [last |-> GetLastTurnID(n),
                                                      missing |-> <<>>])
       IN  /\ ts # {}
           /\ learnt' = learnFromDict(n, m, ts)
    /\ learnt' # learnt
    /\ UNCHANGED <<proposal, calls, floods, gossips, clientCalls, timeouts, chosen,
                   accepted, promised, lastAnswer, handlers, dbType, MANUAL_MODE, tallied,
                   channel>>

Next ==
    \/ \E n \in NODES, t \in TurnIDs, seq \in ClientSeqs, v \in ClientValues :
          ClientSendPrepare(n, t, seq, v)
    \/ \E c \in calls, a \in NODES : HandlePrepare(c, a)
    \/ \E c \in calls, a \in NODES : HandleAccept(c, a)
    \/ \E c \in calls, a \in NODES : Timeout(c, a)
    \/ \E c \in calls : \E ch \in Channels(c) :
          Tally(c, ch, StoreOK) /\ UNCHANGED tallied
    \/ \E n \in NODES, m \in floods : HandleLearn(n, m)
    \/ \E n \in NODES, t \in TurnIDs : SeekDangling(n, t)
    \/ \E n \in NODES, m \in NODES : SeekNewValues(n, m)

Spec == Init /\ [][Next]_vars

\* ---------------------------------------------------------------- one node
\* The proposals the requests carry: node PID's own and those of one peer.
NodePids == {1, 2}
NodeProposals ==
    {Proposal(pid, seq, v) : pid \in NodePids, seq \in 1..MaxSeq, v \in NodeValues}

\* Node PID handles a prepare request as one step; err: the store refuses
\* the write.
NodePrepare(t, newP, err) ==
    /\ LET r == ReceivePrepare(PID, t, newP, err)
       IN  /\ proposal' = [proposal EXCEPT ![PID][t] = r.row]
           /\ promised' = Promised(PID, t, newP, r.body)
           /\ lastAnswer' = Answered("prepare", t, newP, err, proposal[PID][t],
                                     learnt[PID][t], r.body)
    /\ UNCHANGED <<learnt, calls, floods, gossips, clientCalls, timeouts, chosen, accepted,
                   handlers, dbType, MANUAL_MODE, tallied,
                   channel>>

NodeAccept(t, newP, err) ==
    /\ LET r == ReceiveAccept(PID, t, newP, err)
       IN  /\ proposal' = [proposal EXCEPT ![PID][t] = r.row]
           /\ accepted' = Accepted(PID, t, newP, r.body)
           /\ lastAnswer' = Answered("accept", t, newP, err, proposal[PID][t],
                                     learnt[PID][t], r.body)
    /\ UNCHANGED <<learnt, calls, floods, gossips, clientCalls, timeouts, chosen, promised,
                   handlers, dbType, MANUAL_MODE, tallied,
                   channel>>

NodeLearn(t, v, out) ==
    /\ gossips + ReceiveLearn(PID, t, v, out).sent <= MaxGossips
    /\ LET r == ReceiveLearn(PID, t, v, out)
       IN  /\ learnt' = r.learnt
           /\ floods' = r.msgs
           /\ gossips' = gossips + r.sent
           /\ lastAnswer' = Answered("learn", t, Proposal(0, 0, v), out.err,
                                     proposal[PID][t], learnt[PID][t],
                                     Body(r.message, EmptyProposal,
                                          IF r.message = "value stored" THEN v ELSE ""))
    /\ UNCHANGED <<proposal, calls, clientCalls, timeouts, chosen, accepted,
                   promised, handlers, dbType, MANUAL_MODE, tallied,
                   channel>>

\* Variant of init that initialises the database at every start: C20 must
\* tell it from the program's start.
init_NewDatabase(n) ==
    [proposal |-> [t \in TurnIDs |-> <<>>], learnt |-> [t \in TurnIDs |-> <<>>]]

\* The tables of node n after main's init() on a restart: the database
\* exists, so it is not initialised (and InitDatabase creates a table only
\* if it does not exist); PrepareDBConn opens the store as it was left.
init(n) == [proposal |-> proposal[n], learnt |-> learnt[n]]

\* Node PID crashes and is started again; the record keeps what the store
\* held for turn id t before the crash.
Restart(t) ==
    /\ proposal' = [proposal EXCEPT ![PID] = init(PID).proposal]
    /\ learnt' = [learnt EXCEPT ![PID] = init(PID).learnt]
    /\ lastAnswer' = Answered("restart", t, EmptyProposal, FALSE, proposal[PID][t],
                              learnt[PID][t], NilResponse)
    /\ UNCHANGED <<calls, floods, gossips, clientCalls, timeouts, chosen, accepted,
                   promised, handlers, dbType, MANUAL_MODE, tallied,
                   channel>>

NextNode ==
    \/ \E t \in TurnIDs, newP \in NodeProposals, err \in BOOLEAN :
          NodePrepare(t, newP, err)
    \/ \E t \in TurnIDs, newP \in NodeProposals, err \in BOOLEAN :
          NodeAccept(t, newP, err)
    \/ \E t \in TurnIDs, v \in NodeValues, out \in SetLearntValueOutcomes :
          NodeLearn(t, v, out)
    \/ \E t \in TurnIDs : Restart(t)

SpecNode == Init /\ [][NextNode]_vars

\* ------------------------------------------------- one node, concurrently
\* A handler of node PID in progress: Answered's record, with op the
\* handler's kind, body.message its position ("" before it starts) and row,
\* lrn what it has read so far.
HandlerOps == {"prepare", "accept", "learn", "learnAndFlood", "learnFromDict"}
HandlerRequests ==
    {<<op, p>> : op \in {"prepare", "accept"}, p \in NodeProposals}
    \cup {<<op, Proposal(0, 0, v)>> : op \in {"learn", "learnFromDict"}, v \in NodeValues}
    \cup {<<"learnAndFlood", Proposal(0, 0, v)>> : v \in NodeValues \ {""}}

At(h, pc) == Answered(h.op, h.t, h.p, h.err, h.row, h.lrn, Body(pc, EmptyProposal, ""))
Done(h, body) == Answered(h.op, h.t, h.p, h.err, h.row, h.lrn, body)
Running(i, pc) == handlers[i].op # "none" /\ handlers[i].body = Body(pc, EmptyProposal, "")

\* A request reaches node PID (or its proposer or seeker starts a learn):
\* the handler is about to read the learnt table.
StartHandler(i, op, t, p) ==
    /\ handlers[i] = NoRequest
    /\ IF i = 1 THEN TRUE ELSE handlers[i - 1] # NoRequest
    /\ handlers' = [handlers EXCEPT ![i] =
          Answered(op, t, p, FALSE, <<>>, <<>>, Body("GetLearntValue", EmptyProposal, ""))]
    /\ UNCHANGED <<proposal, learnt, calls, floods, gossips, clientCalls, timeouts, chosen,
                   accepted, promised, lastAnswer, dbType, MANUAL_MODE, tallied,
                   channel>>

\* Handler i answers `body` (the proposer's and the seeker's learns answer
\* nobody: their record is kept all the same).
Finish(i, h, body) ==
    /\ handlers' = [handlers EXCEPT ![i] = Done(h, body)]
    /\ lastAnswer' = Done(h, body)

\* currentV := queries.GetLearntValue(turnID) and the branch on it.
StepGetLearntValue(i) ==
    /\ Running(i, "GetLearntValue")
    /\ LET h == [handlers[i] EXCEPT !.lrn = learnt[PID][handlers[i].t]]
           currentV == GetLearntValue(PID, h.t)
       IN  CASE h.op \in {"prepare", "accept"} ->
                  IF currentV # ""
                  THEN Finish(i, h, Body("already learnt", EmptyProposal, currentV))
                  ELSE /\ handlers' = [handlers EXCEPT ![i] = At(h, "GetProposal")]
                       /\ UNCHANGED lastAnswer
             [] h.op = "learn" ->
                  IF h.p.v # currentV /\ currentV # ""
                  THEN Finish(i, h, Body("Trying to learn a different value, please respect the algorithm.",
                                          EmptyProposal, ""))
                  ELSE /\ handlers' = [handlers EXCEPT ![i] = At(h, "SetLearntValue")]
                       /\ UNCHANGED lastAnswer
             [] h.op = "learnAndFlood" ->
                  IF currentV = ""
                  THEN /\ handlers' = [handlers EXCEPT ![i] = At(h, "SetLearntValue")]
                       /\ UNCHANGED lastAnswer
                  ELSE Finish(i, h, Body("done", EmptyProposal, ""))
             [] OTHER ->
                  IF currentV = "" /\ h.p.v # ""
                  THEN /\ handlers' = [handlers EXCEPT ![i] = At(h, "SetLearntValue")]
                       /\ UNCHANGED lastAnswer
                  ELSE Finish(i, h, Body("done", EmptyProposal, ""))
    /\ UNCHANGED <<proposal, learnt, calls, floods, gossips, clientCalls, timeouts, chosen,
                   accepted, promised, dbType, MANUAL_MODE, tallied,
                   channel>>

\* oldP, ok := queries.GetProposal(turnID) and the comparison with newP.
StepGetProposal(i) ==
    /\ Running(i, "GetProposal")
    /\ LET h == [handlers[i] EXCEPT !.row = proposal[PID][handlers[i].t]]
           old == GetProposal(PID, h.t)
           passes == IF h.op = "prepare"
                     THEN ~old.ok \/ IsGreaterThan(h.p, old.p)
                     ELSE ~old.ok \/ IsGEThan(h.p, old.p)
       IN  IF passes
           THEN /\ handlers' = [handlers EXCEPT ![i] = At(h, "SetProposal")]
                /\ UNCHANGED lastAnswer
           ELSE Finish(i, h, Body(IF h.op = "prepare" THEN "retry" ELSE "decline",
                                  old.p, ""))
    /\ UNCHANGED <<proposal, learnt, calls, floods, gossips, clientCalls, timeouts, chosen,
                   accepted, promised, dbType, MANUAL_MODE, tallied,
                   channel>>

\* Variant of StepSetProposal whose write applies the prepare path's "keep a
\* non-empty v" to the row the handler read earlier, not to the row the store
\* holds at the write: C12 must tell it from the handler.
StepSetProposal_StaleRow(i, err) ==
    /\ Running(i, "SetProposal")
    /\ LET h == [handlers[i] EXCEPT !.err = err]
           oldP == IF h.row = <<>> THEN EmptyProposal ELSE h.row[1]
           body == IF err
                   THEN Body(IF h.op = "prepare" THEN "retry" ELSE "decline", oldP, "")
                   ELSE Body(IF h.op = "prepare" THEN "promise" ELSE "accept", oldP, "")
       IN  /\ proposal' = IF err THEN proposal
                          ELSE [proposal EXCEPT ![PID][h.t] =
                                   SetProposal(h.row, h.p, h.op = "accept")]
           /\ promised' = IF h.op = "prepare" THEN Promised(PID, h.t, h.p, body)
                          ELSE promised
           /\ accepted' = IF h.op = "accept" THEN Accepted(PID, h.t, h.p, body)
                          ELSE accepted
           /\ Finish(i, h, body)
    /\ UNCHANGED <<learnt, calls, floods, gossips, clientCalls, timeouts, chosen, dbType, MANUAL_MODE, tallied,
                   channel>>

\* err := queries.SetProposal(turnID, newP, isAcceptRequest) and the answer.
StepSetProposal(i, err) ==
    /\ Running(i, "SetProposal")
    /\ LET h == [handlers[i] EXCEPT !.err = err]
           oldP == IF h.row = <<>> THEN EmptyProposal ELSE h.row[1]
           body == IF err
                   THEN Body(IF h.op = "prepare" THEN "retry" ELSE "decline", oldP, "")
                   ELSE Body(IF h.op = "prepare" THEN "promise" ELSE "accept", oldP, "")
       IN  /\ proposal' = IF err THEN proposal
                          ELSE [proposal EXCEPT ![PID][h.t] =
                                   SetProposal(@, h.p, h.op = "accept")]
           /\ promised' = IF h.op = "prepare" THEN Promised(PID, h.t, h.p, body)
                          ELSE promised
           /\ accepted' = IF h.op = "accept" THEN Accepted(PID, h.t, h.p, body)
                          ELSE accepted
           /\ Finish(i, h, body)
    /\ UNCHANGED <<learnt, calls, floods, gossips, clientCalls, timeouts, chosen, dbType, MANUAL_MODE, tallied,
                   channel>>

\* err := queries.SetLearntValue(turnID, proposedV) and what follows it.
StepSetLearntValue(i, out) ==
    /\ Running(i, "SetLearntValue")
    /\ LET h == [handlers[i] EXCEPT !.err = out.err]
           currentV == IF h.lrn = <<>> THEN "" ELSE h.lrn[1]
       IN  /\ learnt' = IF out.written THEN SetLearntValue(learnt, PID, h.t, h.p.v)
                      ELSE learnt
           /\ CASE h.op = "learn" ->
                     IF out.err
                     THEN /\ Finish(i, h, Body("Fail", EmptyProposal, ""))
                          /\ UNCHANGED <<floods, gossips>>
                     ELSE IF currentV = h.p.v
                     THEN /\ Finish(i, h, Body("done", EmptyProposal, ""))
                          /\ UNCHANGED <<floods, gossips>>
                     ELSE /\ Finish(i, h, Body("value stored", EmptyProposal, h.p.v))
                          /\ floods' = floodLearntValue(floods, h.t, h.p.v)
                          /\ gossips' = gossips + 1
                [] h.op = "learnAndFlood" ->
                     /\ Finish(i, h, Body("done", EmptyProposal, ""))
                     /\ floods' = IF out.err THEN floods ELSE SendLearn(floods, h.t, h.p.v)
                     /\ gossips' = gossips + (IF out.err THEN 0 ELSE 1)
                [] OTHER ->
                     /\ Finish(i, h, Body("done", EmptyProposal, ""))
                     /\ UNCHANGED <<floods, gossips>>
    /\ UNCHANGED <<proposal, calls, clientCalls, timeouts, chosen, accepted,
                   promised, dbType, MANUAL_MODE, tallied,
                   channel>>

NextConc ==
    \/ \E i \in 1..MaxHandlers, t \in TurnIDs, r \in HandlerRequests :
          StartHandler(i, r[1], t, r[2])
    \/ \E i \in 1..MaxHandlers : StepGetLearntValue(i)
    \/ \E i \in 1..MaxHandlers : StepGetProposal(i)
    \/ \E i \in 1..MaxHandlers, err \in BOOLEAN : StepSetProposal(i, err)
    \/ \E i \in 1..MaxHandlers, out \in SetLearntValueOutcomes :
          StepSetLearntValue(i, out)

SpecConc == Init /\ [][NextConc]_vars

\* ----------------------------------------------------------- the tally alone
\* The old proposals an answer may carry, and the answers a peer may give to
\* a prepare or an accept request.
TallyOlds ==
    {EmptyProposal}
    \cup {Proposal(pid, seq, "") : pid \in NodePids, seq \in 1..MaxSeq}
    \cup {Proposal(pid, seq, V_DEFAULT(pid)) : pid \in NodePids, seq \in 1..MaxSeq}
TallyResponses(kind) ==
    {NilResponse}
    \cup {Body("already learnt", EmptyProposal, "y")}
    \cup {Body(m, old, "") :
            m \in (IF kind = "prepare" THEN {"promise", "retry"}
                   ELSE {"accept", "decline"}),
            old \in TallyOlds}

\* The tally reads the answers from the channel in their order of arrival
\* and not by node, so the answers of the nodes are drawn up to a
\* permutation of the nodes: in the order of ResponseRank.
MessageRank(m) ==
    CASE m = "" -> 0 [] m = "already learnt" -> 1 [] m = "promise" -> 2
      [] m = "retry" -> 3 [] m = "accept" -> 4 [] OTHER -> 5
ResponseRank(r) ==
    ((MessageRank(r.message) * 3 + r.proposal.pid) * (MaxSeq + 2) + r.proposal.seq) * 2
    + (IF r.proposal.v = "" THEN 0 ELSE 1)
TallyAnswers(kind) ==
    {resp \in [NODES -> TallyResponses(kind)] :
        \A a \in NODES, b \in NODES :
           a < b => ResponseRank(resp[a]) <= ResponseRank(resp[b])}

\* Node PID runs one SendPrepare or SendAccept whose requests were all
\* answered (or timed out); its own acceptor holds the request's proposal,
\* its own learnt table has a value or not, the mode is manual or automatic.
InitTally ==
    /\ \E lrn \in {<<>>, <<"x">>, <<"y">>} :
          learnt = [n \in NODES |-> [t \in TurnIDs |-> IF n = PID THEN lrn ELSE <<>>]]
    /\ \E kind \in {"prepare", "accept"}, t \in TurnIDs, seq \in 1..MaxSeq,
          v \in ClientValues :
          \E resp \in TallyAnswers(kind) :
             /\ calls = {[NewCall(PID, kind, t, seq, v) EXCEPT !.resp = resp]}
             /\ proposal = [n \in NODES |-> [u \in TurnIDs |->
                               IF n = PID /\ u = t
                               THEN <<Proposal(PID, seq, v)>> ELSE <<>>]]
    /\ floods = {}
    /\ gossips = 0
    /\ clientCalls = 0
    /\ timeouts = 0
    /\ chosen = [t \in TurnIDs |-> {}]
    /\ accepted = [n \in NODES |-> [t \in TurnIDs |-> EmptyProposal]]
    /\ promised = [n \in NODES |-> [t \in TurnIDs |-> EmptyProposal]]
    /\ lastAnswer = NoRequest
    /\ handlers = [i \in 1..MaxHandlers |-> NoRequest]
    /\ dbType = "sqlite"
    /\ MANUAL_MODE \in BOOLEAN
    /\ tallied = NoTally
    /\ channel = NoChannel

\* The tally of the invocation, recorded, and the seeker's revival pass.
NextTally ==
    \/ \E c \in calls : \E ch \in Channels(c) :
          \E out \in (IF Decision(c, ch).next = "learn"
                      THEN SetLearntValueOutcomes ELSE {StoreOK}) :
             Tally(c, ch, out) /\ tallied' = Tallied(c, Decision(c, ch))
    \/ \E t \in TurnIDs : SeekDangling(PID, t)

SpecTally == InitTally /\ [][NextTally]_vars

\* ------------------------------------------ one invocation and its channel
\* SendPrepare / SendAccept past the learnt check: `ch := make(chan []byte,
\* len(config.CONF.NODES))`, one sendPartialRequest task per node, and the
\* tally loop `for i := 0; i < cap(responseBuffer); i++ { <-responseBuffer }`.
ChanCap == Cardinality(NODES)
\* What session.Post comes to for a task: an error (timeout after
\* config.CONF.TIMEOUT seconds, peer unreachable), for which the task puts nil
\* in the channel, or a body.
ChanResults ==
    {NilResponse, Body("promise", EmptyProposal, ""),
     Body("already learnt", EmptyProposal, "y")}
SenderAt(pc, res) == [pc |-> pc, res |-> res]

InitChan ==
    /\ proposal = [n \in NODES |-> [t \in TurnIDs |-> <<>>]]
    /\ learnt = [n \in NODES |-> [t \in TurnIDs |-> <<>>]]
    /\ calls = {}
    /\ floods = {}
    /\ gossips = 0
    /\ clientCalls = 0
    /\ timeouts = 0
    /\ chosen = [t \in TurnIDs |-> {}]
    /\ accepted = [n \in NODES |-> [t \in TurnIDs |-> EmptyProposal]]
    /\ promised = [n \in NODES |-> [t \in TurnIDs |-> EmptyProposal]]
    /\ lastAnswer = NoRequest
    /\ handlers = [i \in 1..MaxHandlers |-> NoRequest]
    /\ dbType = "sqlite"
    /\ MANUAL_MODE = FALSE
    /\ tallied = NoTally
    /\ channel = [buf |-> <<>>,
                  sender |-> [a \in NODES |-> SenderAt("post", NilResponse)],
                  read |-> 0, tally |-> "reading"]

\* session.Post of the task for node a returns with res.
PostReturns(a, res) ==
    /\ channel.sender[a].pc = "post"
    /\ channel' = [channel EXCEPT !.sender[a] = SenderAt("send", res)]
    /\ UNCHANGED <<proposal, learnt, calls, floods, gossips, clientCalls, timeouts,
                   chosen, accepted, promised, lastAnswer, handlers, dbType,
                   MANUAL_MODE, tallied>>

\* Variant of ChannelSend in which the task of an unreachable peer puts
\* nothing in the channel: C28 must tell it from sendPartialRequest.
ChannelSend_NothingForSilentPeer(a) ==
    /\ channel.sender[a].pc = "send"
    /\ Len(channel.buf) < ChanCap
    /\ channel' = [channel EXCEPT
                      !.buf = IF channel.sender[a].res = NilResponse
                              THEN @ ELSE Append(@, channel.sender[a].res),
                      !.sender[a] = SenderAt("done", NilResponse)]
    /\ UNCHANGED <<proposal, learnt, calls, floods, gossips, clientCalls, timeouts,
                   chosen, accepted, promised, lastAnswer, handlers, dbType,
                   MANUAL_MODE, tallied>>

\* `resBuffer <- nil` or `resBuffer <- body` of the task for node a: the
\* send blocks while the buffer is full.
ChannelSend(a) ==
    /\ channel.sender[a].pc = "send"
    /\ Len(channel.buf) < ChanCap
    /\ channel' = [channel EXCEPT
                      !.buf = Append(@, channel.sender[a].res),
                      !.sender[a] = SenderAt("done", NilResponse)]
    /\ UNCHANGED <<proposal, learnt, calls, floods, gossips, clientCalls, timeouts,
                   chosen, accepted, promised, lastAnswer, handlers, dbType,
                   MANUAL_MODE, tallied>>

\* One turn of the tally loop: `<-responseBuffer` blocks while the buffer is
\* empty; the loop returns on an answer with a learnt value and after
\* cap(responseBuffer) turns.
TallyReceive ==
    /\ channel.tally = "reading"
    /\ channel.buf # <<>>
    /\ channel' = [channel EXCEPT
                      !.buf = Tail(@),
                      !.read = @ + 1,
                      !.tally = IF \/ ResponseHasLearntValue(Head(channel.buf))
                                   \/ channel.read + 1 = ChanCap
                                THEN "returned" ELSE "reading"]
    /\ UNCHANGED <<proposal, learnt, calls, floods, gossips, clientCalls, timeouts,
                   chosen, accepted, promised, lastAnswer, handlers, dbType,
                   MANUAL_MODE, tallied>>

NextChan ==
    \/ \E a \in NODES, res \in ChanResults : PostReturns(a, res)
    \/ \E a \in NODES : ChannelSend(a)
    \/ TallyReceive

\* Every task and the tally are goroutines the scheduler keeps running, and
\* session.Post returns within the client's Timeout.
SpecChan ==
    /\ InitChan /\ [][NextChan]_vars
    /\ \A a \in NODES : WF_vars(\E res \in ChanResults : PostReturns(a, res))
    /\ \A a \in NODES : WF_vars(ChannelSend(a))
    /\ WF_vars(TallyReceive)

\* ------------------------------------------------- the seeker's responder
\* One node answers /seeker/receive_seek requests over a learnt table of
\* several turn ids. A learnt row may hold the empty value (a learn request
\* with an empty value stores one).
MaxTurn == 3
MaxMissing == 2
SeekTurnIDs == 1..MaxTurn
SeekRows == {<<>>, <<"">>, <<"x">>}
SeekMissing ==
    UNION {[1..k -> 1..(MaxTurn + 1)] : k \in 0..MaxMissing}
SeekRequests == [last : 0..MaxTurn, missing : SeekMissing]

InitSeek ==
    /\ proposal = [n \in NODES |-> [t \in TurnIDs |-> <<>>]]
    /\ learnt \in {[n \in NODES |-> IF n = PID THEN f
                                    ELSE [t \in SeekTurnIDs |-> <<>>]] :
                      f \in [SeekTurnIDs -> SeekRows]}
    /\ calls = {}
    /\ floods = {}
    /\ gossips = 0
    /\ clientCalls = 0
    /\ timeouts = 0
    /\ chosen = [t \in TurnIDs |-> {}]
    /\ accepted = [n \in NODES |-> [t \in TurnIDs |-> EmptyProposal]]
    /\ promised = [n \in NODES |-> [t \in TurnIDs |-> EmptyProposal]]
    /\ lastAnswer = NoRequest
    /\ handlers = [i \in 1..MaxHandlers |-> NoRequest]
    /\ dbType \in DB_TYPES
    /\ MANUAL_MODE = FALSE
    /\ tallied = NoTally
    /\ channel = NoChannel

\* receiveSeekHandler: node PID answers the request with the map computed by
\* ComputeNewValuesResponse; the store is only read.
ReceiveSeek(req) ==
    /\ lastAnswer' = [op |-> "receive_seek", req |-> req,
                      toLearn |-> ComputeNewValuesResponse(PID, req)]
    /\ UNCHANGED <<proposal, learnt, calls, floods, gossips, clientCalls, timeouts,
                   chosen, accepted, promised, handlers, dbType, MANUAL_MODE, tallied,
                   channel>>

NextSeek == \E req \in SeekRequests : ReceiveSeek(req)

SpecSeek == InitSeek /\ [][NextSeek]_vars

\* ------------------------------------------- overlapping prepares of a node
\* Node PID runs client-triggered SendPrepare invocations that overlap; every
\* acceptor handles each prepare request in its own goroutine, its read of the
\* stored proposal and its write being two store operations. The Accept
\* invocations the tallies start stay in `calls`, which so holds every Accept
\* request broadcast in the run.
MaxOverlap == 2

OverlapSendPrepare(t, seq, v) ==
    /\ clientCalls < MaxOverlap
    /\ clientCalls' = clientCalls + 1
    /\ calls' = SendPrepare(calls, PID, t, seq, v)
    /\ UNCHANGED <<proposal, learnt, floods, gossips, timeouts, chosen, accepted, promised,
                   lastAnswer, handlers, dbType, MANUAL_MODE, tallied,
                   channel>>

\* ReceivePrepare on acceptor a up to its SetProposal: GetLearntValue,
\* GetProposal and the comparison; a refusal is answered at once.
OverlapGetProposal(c, a) ==
    /\ c \in calls /\ c.kind = "prepare" /\ c.resp[a] = Pending
    /\ LET newP == Proposal(c.node, c.seq, c.v)
           currentV == GetLearntValue(a, c.t)
           old == GetProposal(a, c.t)
           body == IF currentV # ""
                   THEN Body("already learnt", EmptyProposal, currentV)
                   ELSE IF ~old.ok \/ IsGreaterThan(newP, old.p)
                   THEN Body("SetProposal", old.p, currentV)
                   ELSE Body("retry", old.p, currentV)
       IN  calls' = (calls \ {c}) \cup {[c EXCEPT !.resp[a] = body]}
    /\ UNCHANGED <<proposal, learnt, floods, gossips, clientCalls, timeouts, chosen,
                   accepted, promised, lastAnswer, handlers, dbType, MANUAL_MODE, tallied,
                   channel>>

\* The handler's SetProposal(turnID, newP, false) and its `promise`, with the
\* proposal it read earlier as the answer's old proposal.
OverlapSetProposal(c, a) ==
    /\ c \in calls /\ c.kind = "prepare" /\ c.resp[a].message = "SetProposal"
    /\ LET newP == Proposal(c.node, c.seq, c.v)
       IN  /\ proposal' = [proposal EXCEPT ![a][c.t] = SetProposal(@, newP, FALSE)]
           /\ calls' = (calls \ {c}) \cup
                          {[c EXCEPT !.resp[a] = Body("promise", c.resp[a].proposal, "")]}
    /\ UNCHANGED <<learnt, floods, gossips, clientCalls, timeouts, chosen, accepted,
                   promised, lastAnswer, handlers, dbType, MANUAL_MODE, tallied,
                   channel>>

\* countAgreements of a prepare invocation whose requests are all answered.
OverlapTally(c, ch) ==
    /\ c \in calls /\ c.kind = "prepare"
    /\ \A a \in NODES : c.resp[a].message # "SetProposal"
    /\ Tally(c, ch, StoreOK)
    /\ UNCHANGED tallied

NextOverlap ==
    \/ \E t \in TurnIDs, seq \in ClientSeqs, v \in ClientValues :
          OverlapSendPrepare(t, seq, v)
    \/ \E c \in calls, a \in NODES : OverlapGetProposal(c, a)
    \/ \E c \in calls, a \in NODES : OverlapSetProposal(c, a)
    \/ \E c \in calls : \E ch \in Channels(c) : OverlapTally(c, ch)

SpecOverlap == Init /\ [][NextOverlap]_vars

\* ------------------------------------------------------------------ claims
\* What a handler read, as values: the learnt value ("" when no row) and the
\* stored proposal (the null proposal when no row).
LrnValue(lrn) == IF lrn = <<>> THEN "" ELSE lrn[1]
StoredN(row) == IF row = <<>> THEN EmptyProposal ELSE row[1]
PrepareAnswered == lastAnswer.op = "prepare" /\ LrnValue(lastAnswer.lrn) = ""
AcceptAnswered == lastAnswer.op = "accept" /\ LrnValue(lastAnswer.lrn) = ""

\* C1 (Agreement, L1): any two nodes with a non-empty learnt value for a
\* turn id hold the same value.
C1_Agreement ==
    \A t \in TurnIDs : \A n1, n2 \in NODES :
        (GetLearntValue(n1, t) # "" /\ GetLearntValue(n2, t) # "")
            => GetLearntValue(n1, t) = GetLearntValue(n2, t)

\* C2 (chosen-value stability): once a majority answered `accept` to an
\* Accept(t, N, v*), no later step has a majority accept another value for t
\* and every later write of learnt[t] on any node writes v*.
C2_ChosenValueStable ==
    [][\A t \in TurnIDs :
          chosen[t] # {} =>
             /\ chosen'[t] = chosen[t]
             /\ \A n \in NODES :
                   learnt'[n][t] # learnt[n][t] =>
                      \E v \in chosen[t] : learnt'[n][t] = <<v>>]_vars

\* C3 (write-once learnt, L2): no step of a ReceiveLearn handler, of
\* learnAndFlood or of learnFromDict changes a non-empty learnt[t] of a node
\* to a different value, however the handlers interleave.
C3_WriteOnceLearnt ==
    [][\A n \in NODES, t \in TurnIDs :
          GetLearntValue(n, t) # "" =>
             GetLearntValueIn(learnt', n, t) = GetLearntValue(n, t)]_vars

\* C4 (monotonic proposal number, A1): no step lowers the proposal number
\* stored for a turn id, however the concurrently handled prepare and accept
\* requests interleave their reads and writes.
C4_MonotonicStoredN ==
    [][\A n \in NODES, t \in TurnIDs :
          proposal[n][t] # <<>> =>
             /\ proposal'[n][t] # <<>>
             /\ IsGEThan(proposal'[n][t][1], proposal[n][t][1])]_vars

\* C5 (promise keeping): an acceptor that answers `accept` to Accept(t, N')
\* has never answered `promise` to a Prepare(t, N) with N > N'.
C5_PromiseKept ==
    (lastAnswer.op = "accept" /\ lastAnswer.body.message = "accept")
        => IsGEThan(lastAnswer.p, promised[PID][lastAnswer.t])

\* C6 (P2c value choice): when the tally of SendPrepare(t, seq, v) counts at
\* least QUORUM promises (and reads no learnt value, the node's own learnt[t]
\* being empty), the one request it starts is the accept numbered (seq, own
\* pid) whose value is the v of the promise with the greatest old N among the
\* promises with a non-empty old v, or, no promise carrying a value, v when
\* non-empty, else V_DEFAULT; and it starts no other accept.
PromisesOf(c) == {a \in NODES : c.resp[a].message = "promise"}
ValuedPromisesOf(c) == {a \in PromisesOf(c) : c.resp[a].proposal.v # ""}
P2cValues(c) ==
    IF ValuedPromisesOf(c) = {}
    THEN {IF c.v # "" THEN c.v ELSE V_DEFAULT(c.node)}
    ELSE {c.resp[a].proposal.v :
            a \in {b \in ValuedPromisesOf(c) :
                      \A d \in ValuedPromisesOf(c) :
                         IsGEThan(c.resp[b].proposal, c.resp[d].proposal)}}
C6_P2cValueChoice ==
    [][\A c \in calls :
          (c.kind = "prepare" /\ c \notin calls') =>
             LET sent == {c2 \in calls' \ calls : c2.kind = "accept"}
                 P2c(c2) == /\ c2.node = c.node /\ c2.t = c.t /\ c2.seq = c.seq
                            /\ c2.v \in P2cValues(c)
                            /\ Cardinality(PromisesOf(c)) >= QUORUM
             IN  /\ \A c2 \in sent : P2c(c2)
                 /\ (/\ Cardinality(PromisesOf(c)) >= QUORUM
                     /\ \A a \in NODES : ~ResponseHasLearntValue(c.resp[a])
                     /\ GetLearntValue(c.node, c.t) = "")
                       => IF MANUAL_MODE
                          THEN /\ calls' = calls \ {c}
                               /\ tallied'.next = "accept" /\ tallied'.seq = c.seq
                               /\ tallied'.v \in P2cValues(c)
                          ELSE \E c2 \in sent : calls' = (calls \ {c}) \cup {c2}]_vars
\* A tally has sent an accept whose value only a promise of node 2 carried.
C6_Witness ==
    \E c \in calls :
       /\ c.kind = "accept" /\ c.node = PID /\ c.v = V_DEFAULT(2)
       /\ \A a \in NODES : c.resp[a] = Pending

\* C7 (prepare rule), as stated: for a turn id with empty learnt value the
\* answer is `promise` if and only if N is strictly greater than the stored
\* number ((0,0) when no row); otherwise `retry`, the row unchanged.
C7_PrepareRule_AsStated ==
    PrepareAnswered =>
       IF IsGreaterThan(lastAnswer.p, StoredN(lastAnswer.row))
       THEN lastAnswer.body.message = "promise"
       ELSE /\ lastAnswer.body.message = "retry"
            /\ proposal[PID][lastAnswer.t] = lastAnswer.row
\* C7 (prepare rule), with the store: the answer is `promise` if and only if
\* N is strictly greater than the stored number and the store took the write;
\* otherwise it is `retry` and the row is unchanged.
C7_PrepareRule ==
    PrepareAnswered =>
       IF IsGreaterThan(lastAnswer.p, StoredN(lastAnswer.row)) /\ ~lastAnswer.err
       THEN /\ lastAnswer.body.message = "promise"
            /\ proposal[PID][lastAnswer.t] # <<>>
            /\ IsEqualTo(proposal[PID][lastAnswer.t][1], lastAnswer.p)
       ELSE /\ lastAnswer.body.message = "retry"
            /\ proposal[PID][lastAnswer.t] = lastAnswer.row
\* A prepare above the stored number of an existing row was promised.
C7_Witness ==
    /\ PrepareAnswered /\ lastAnswer.row # <<>>
    /\ lastAnswer.body.message = "promise"

\* C8 (accept rule), as stated: for a turn id with empty learnt value the
\* answer is `accept`, the row overwritten with (N, v), if and only if there
\* is no row or N >= the stored number; otherwise `decline`, row unchanged.
C8_AcceptRule_AsStated ==
    AcceptAnswered =>
       IF lastAnswer.row = <<>> \/ IsGEThan(lastAnswer.p, StoredN(lastAnswer.row))
       THEN /\ lastAnswer.body.message = "accept"
            /\ proposal[PID][lastAnswer.t] = <<lastAnswer.p>>
       ELSE /\ lastAnswer.body.message = "decline"
            /\ proposal[PID][lastAnswer.t] = lastAnswer.row
\* C8 (accept rule), with the store: the answer is `accept` if and only if
\* (there is no row or N >= the stored number) and the store took the write;
\* the row then holds N, and holds v when v is not empty; otherwise the answer
\* is `decline` and the row is unchanged.
C8_AcceptRule ==
    AcceptAnswered =>
       IF /\ lastAnswer.row = <<>> \/ IsGEThan(lastAnswer.p, StoredN(lastAnswer.row))
          /\ ~lastAnswer.err
       THEN /\ lastAnswer.body.message = "accept"
            /\ proposal[PID][lastAnswer.t] # <<>>
            /\ IsEqualTo(proposal[PID][lastAnswer.t][1], lastAnswer.p)
            /\ lastAnswer.p.v # "" => proposal[PID][lastAnswer.t][1].v = lastAnswer.p.v
       ELSE /\ lastAnswer.body.message = "decline"
            /\ proposal[PID][lastAnswer.t] = lastAnswer.row
\* An accept with the stored number and another value was accepted.
C8_Witness ==
    /\ AcceptAnswered /\ lastAnswer.row # <<>>
    /\ IsEqualTo(lastAnswer.p, lastAnswer.row[1])
    /\ lastAnswer.p.v # "" /\ lastAnswer.row[1].v # ""
    /\ lastAnswer.p.v # lastAnswer.row[1].v
    /\ lastAnswer.body.message = "accept"

\* C9 (acceptor short-circuit): a prepare or accept request for a turn id
\* whose learnt value is not empty is answered `already learnt` with that
\* value, and neither the stored proposal nor the learnt value changes.
C9_ShortCircuit ==
    (lastAnswer.op \in {"prepare", "accept"} /\ LrnValue(lastAnswer.lrn) # "") =>
       /\ lastAnswer.body.message = "already learnt"
       /\ lastAnswer.body.learnt = LrnValue(lastAnswer.lrn)
       /\ proposal[PID][lastAnswer.t] = lastAnswer.row
       /\ learnt[PID][lastAnswer.t] = lastAnswer.lrn
\* A prepare above the stored number met a learnt value.
C9_Witness ==
    /\ lastAnswer.op = "prepare" /\ LrnValue(lastAnswer.lrn) # ""
    /\ IsGreaterThan(lastAnswer.p, StoredN(lastAnswer.row))
    /\ ~lastAnswer.err
    /\ lastAnswer.body.message = "already learnt"

\* C10 (meaning of the stored v): the v stored for a turn id is the value of
\* the highest-numbered proposal the acceptor answered `accept` to, and is
\* empty if it accepted none.
C10_StoredVIsAccepted ==
    \A t \in TurnIDs : GetProposal(PID, t).p.v = accepted[PID][t].v

\* C11 (invariant A2): once the acceptor has answered `accept` to (N_a, v_a)
\* with v_a not empty, and that is its most recent accepted proposal of the
\* turn id, the stored v is v_a and the stored N is at least N_a, whatever
\* prepare requests it handles afterwards.
C11_A2 ==
    \A t \in TurnIDs :
       accepted[PID][t].v # "" =>
          /\ proposal[PID][t] # <<>>
          /\ proposal[PID][t][1].v = accepted[PID][t].v
          /\ IsGEThan(proposal[PID][t][1], accepted[PID][t])
\* A prepare above the accepted number, carrying another value as its hint,
\* was promised after the accept.
C11_Witness ==
    /\ PrepareAnswered /\ lastAnswer.body.message = "promise"
    /\ accepted[PID][lastAnswer.t].v # ""
    /\ lastAnswer.p.v # "" /\ lastAnswer.p.v # accepted[PID][lastAnswer.t].v
    /\ IsGreaterThan(lastAnswer.p, accepted[PID][lastAnswer.t])

\* C12 (no lost accepted value under concurrency): however the store reads
\* and writes of concurrently handled accept and prepare requests interleave,
\* the write of an accept answered `accept` with a non-empty v_a leaves v_a as
\* the stored v, and the write of a prepare never replaces or clears a
\* non-empty stored v.
C12_NoLostAcceptedValue ==
    [][\A i \in 1..MaxHandlers :
          (Running(i, "SetProposal") /\ handlers'[i] # handlers[i]) =>
             LET h == handlers'[i]
                 before == StoredN(proposal[PID][h.t])
                 after == StoredN(proposal'[PID][h.t])
             IN  IF h.op = "prepare"
                 THEN before.v # "" => after.v = before.v
                 ELSE (h.body.message = "accept" /\ h.p.v # "") => after.v = h.p.v]_vars
\* An accept and a prepare both read the turn id without a row; the accept
\* wrote "x" first, the prepare, carrying the hint "y", wrote after it and
\* was promised: the row holds the prepare's number and the accepted "x".
C12_Witness ==
    \E i, j \in 1..MaxHandlers :
       /\ handlers[i].op = "accept" /\ handlers[i].body.message = "accept"
       /\ handlers[i].p.v = "x" /\ handlers[i].row = <<>>
       /\ handlers[j].op = "prepare" /\ handlers[j].body.message = "promise"
       /\ handlers[j].p.v = "y" /\ handlers[j].row = <<>>
       /\ lastAnswer = handlers[j]
       /\ proposal[PID][handlers[j].t] # <<>>
       /\ IsEqualTo(proposal[PID][handlers[j].t][1], handlers[j].p)
       /\ proposal[PID][handlers[j].t][1].v = "x"

\* C13 (learner rejection): a learn request for a turn id whose learnt value
\* is not empty and differs from the request's value is answered with the
\* refusal message; the learnt value stays and no learn request is sent.
C13_LearnerRejection ==
    [][(/\ lastAnswer'.op = "learn"
        /\ GetLearntValue(PID, lastAnswer'.t) # ""
        /\ GetLearntValue(PID, lastAnswer'.t) # lastAnswer'.p.v)
          => /\ lastAnswer'.body.message =
                   "Trying to learn a different value, please respect the algorithm."
             /\ learnt' = learnt
             /\ floods' = floods /\ gossips' = gossips]_vars
\* The learner, holding "x", refused a request to learn "y".
C13_Witness ==
    /\ lastAnswer.op = "learn" /\ lastAnswer.lrn = <<"x">> /\ lastAnswer.p.v = "y"
    /\ ~lastAnswer.err
    /\ lastAnswer.body.message =
          "Trying to learn a different value, please respect the algorithm."
    /\ learnt[PID][lastAnswer.t] = <<"x">>

\* C14 (learn idempotence): a learn request whose value the learner already
\* holds for the turn id leaves the learnt value as it is, sends no learn
\* request and is not answered `value stored`.
C14_LearnIdempotent ==
    [][(/\ lastAnswer'.op = "learn"
        /\ learnt[PID][lastAnswer'.t] # <<>>
        /\ GetLearntValue(PID, lastAnswer'.t) = lastAnswer'.p.v)
          => /\ GetLearntValueIn(learnt', PID, lastAnswer'.t) = lastAnswer'.p.v
             /\ floods' = floods /\ gossips' = gossips
             /\ lastAnswer'.body.message # "value stored"]_vars
\* The learner took "x" a second time, the store accepting the write, after
\* the first delivery had sent the gossip flood.
C14_Witness ==
    /\ lastAnswer.op = "learn" /\ lastAnswer.lrn = <<"x">> /\ lastAnswer.p.v = "x"
    /\ ~lastAnswer.err
    /\ lastAnswer.body.message = ""
    /\ floods = {LearnRequest("learn_flood", lastAnswer.t, "x")} /\ gossips = 1

\* The request answered by this step re-sends the accept the acceptor
\* answered `accept` to last: same number and value, no higher-numbered
\* request stored since, the learnt value of the turn id still empty.
AcceptResent ==
    /\ lastAnswer'.op = "accept"
    /\ GetLearntValue(PID, lastAnswer'.t) = ""
    /\ accepted[PID][lastAnswer'.t] = lastAnswer'.p
    /\ proposal[PID][lastAnswer'.t] # <<>>
    /\ IsEqualTo(proposal[PID][lastAnswer'.t][1], lastAnswer'.p)

\* C15 (accept re-send), as stated: the re-sent Accept(t, (N, v)) is answered
\* `accept` again and the stored proposal is (N, v).
C15_AcceptResend_AsStated ==
    [][AcceptResent =>
          /\ lastAnswer'.body.message = "accept"
          /\ proposal'[PID][lastAnswer'.t] = <<lastAnswer'.p>>]_vars
\* C15 (accept re-send), with the store: the re-sent Accept(t, (N, v)) is
\* answered `accept` again when the store takes the write and `decline` when
\* it refuses it; the stored proposal stays as the first accept left it,
\* which is (N, v) when v is not empty.
C15_AcceptResend ==
    [][AcceptResent =>
          /\ lastAnswer'.body.message = IF lastAnswer'.err THEN "decline" ELSE "accept"
          /\ proposal'[PID][lastAnswer'.t] = proposal[PID][lastAnswer'.t]
          /\ lastAnswer'.p.v # "" =>
                proposal'[PID][lastAnswer'.t] = <<lastAnswer'.p>>]_vars
\* On Redis, no prepare ever promised, an accept met the row an earlier
\* accept of the same number and value had written, and was accepted.
C15_Witness ==
    /\ lastAnswer.op = "accept" /\ LrnValue(lastAnswer.lrn) = ""
    /\ dbType = "redis" /\ promised[PID][lastAnswer.t] = EmptyProposal
    /\ lastAnswer.p.v # "" /\ lastAnswer.row = <<lastAnswer.p>>
    /\ lastAnswer.body.message = "accept"
    /\ accepted[PID][lastAnswer.t] = lastAnswer.p
    /\ proposal[PID][lastAnswer.t] = <<lastAnswer.p>>

\* C16 (proposer learnt check): SendPrepare, SendAccept and SendLearn each
\* check the local learnt value of the turn id first: an invocation started
\* (here by the tally that ends) while it is not empty sends no request to
\* any peer.
C16_ProposerLearntCheck ==
    [][\A c \in calls :
          (c \notin calls' /\ GetLearntValue(c.node, c.t) # "") =>
             /\ calls' \subseteq calls
             /\ floods' = floods
             /\ gossips' = gossips]_vars

\* C17 (eventual learning): once some node holds the learnt value v for a
\* turn id, every node comes to hold v for it.  A learnt value is written
\* over an empty one only, so every node comes to hold v only if each value
\* a node learns for the turn id from then on is v.
C17_EventualLearning ==
    [][\A t \in TurnIDs, n \in NODES :
          (/\ \E m \in NODES : learnt[m][t] # <<>>
           /\ learnt'[n][t] # learnt[n][t])
             => \E m \in NODES : learnt'[n][t] = learnt[m][t]]_vars

\* C18 (store failure is never a silent success): the acceptor answers
\* `promise` or `accept` only when the store took the write of the new
\* proposal, the row then carrying its number; when the store refuses the
\* write the answer is `retry` (for an accept: `decline`) and the row is as
\* it was.
C18_StoreFailure ==
    (lastAnswer.op \in {"prepare", "accept"}) =>
       /\ lastAnswer.body.message \in {"promise", "accept"} =>
             /\ ~lastAnswer.err
             /\ proposal[PID][lastAnswer.t] # <<>>
             /\ IsEqualTo(proposal[PID][lastAnswer.t][1], lastAnswer.p)
       /\ (lastAnswer.err /\ LrnValue(lastAnswer.lrn) = "") =>
             /\ lastAnswer.body.message =
                   (IF lastAnswer.op = "prepare" THEN "retry" ELSE "decline")
             /\ proposal[PID][lastAnswer.t] = lastAnswer.row
\* The store refused the write of an accept whose number is above the stored
\* one: the accept was declined.
C18_Witness ==
    /\ AcceptAnswered /\ lastAnswer.err /\ lastAnswer.row # <<>>
    /\ IsGreaterThan(lastAnswer.p, lastAnswer.row[1])
    /\ lastAnswer.body.message = "decline"
    /\ proposal[PID][lastAnswer.t] = lastAnswer.row

\* C19 (an empty v is never written by an accept): after an accept request
\* with an empty v the stored v of the turn id is what it was before.
C19_EmptyVNotWritten ==
    (lastAnswer.op = "accept" /\ lastAnswer.p.v = "") =>
       StoredN(proposal[PID][lastAnswer.t]).v = StoredN(lastAnswer.row).v

LearntOf(c) ==
    {c.resp[a].learnt : a \in {b \in NODES : ResponseHasLearntValue(c.resp[b])}}
AcceptsOf(c) == {a \in NODES : c.resp[a].message = "accept"}
NonNullOf(c) == {a \in NODES : c.resp[a] # NilResponse}

\* C21 (tally short-circuit): when an answer in the channel of a prepare or
\* an accept tally carries a learnt value, the tally that ends runs
\* learnAndFlood with the learnt value of one such answer and starts nothing
\* else: no accept, no retry prepare, and no learn request but
\* learnAndFlood's, whatever the other answers are.
C21_TallyShortCircuit ==
    [][\A c \in calls :
          (c \notin calls' /\ LearntOf(c) # {}) =>
             /\ calls' = calls \ {c}
             /\ \E v \in LearntOf(c), out \in SetLearntValueOutcomes :
                   LET r == learnAndFlood(c.node, c.t, v, out)
                   IN  learnt' = r.learnt /\ floods' = r.msgs
             /\ floods' \ floods \subseteq {LearnRequest("learn_request", c.t, v) : v \in LearntOf(c)}]_vars
\* A prepare tally with a quorum of promises and an answer that carries "y"
\* has learnt "y" and broadcast it, and nothing else is out.
C21_Witness ==
    /\ tallied.call.kind = "prepare" /\ tallied.next = "learn"
    /\ Cardinality(PromisesOf(tallied.call)) >= QUORUM
    /\ ~MANUAL_MODE
    /\ learnt[PID][tallied.call.t] = <<"y">>
    /\ floods = {LearnRequest("learn_request", tallied.call.t, "y")}
    /\ calls = {}

RefusalSeqs(c, message) ==
    {c.resp[a].proposal.seq :
        a \in {b \in NODES : /\ c.resp[b].message = message
                             /\ c.resp[b].proposal.pid # 0}}
Greatest(S) == CHOOSE s \in S : \A u \in S : u <= s
\* The retry of call c: SendPrepare(t, seq, v) has been called and, unless
\* the local learnt value makes it drop the request, its requests are out
\* (a seq above MaxSeq is not followed).
Retried(c, seq) ==
    /\ tallied'.next = "prepare" /\ tallied'.seq = seq /\ tallied'.v = c.v
    /\ calls' = (calls \ {c}) \cup
                   (IF seq <= MaxSeq /\ GetLearntValue(c.node, c.t) = ""
                    THEN {NewCall(c.node, "prepare", c.t, seq, c.v)}
                    ELSE {})
    /\ UNCHANGED <<learnt, floods, gossips>>

\* C23 as stated (prepare retry rule): in automatic mode a prepare tally with
\* fewer than QUORUM promises, at least QUORUM answers that are not nil and a
\* retry whose old proposal has a pid calls SendPrepare once, for the same
\* turn id, with the greatest seq of such retries plus one and the same v.
C23_PrepareRetry_AsStated ==
    [][\A c \in calls :
          (/\ c \notin calls' /\ c.kind = "prepare" /\ ~MANUAL_MODE
           /\ Cardinality(PromisesOf(c)) < QUORUM
           /\ Cardinality(NonNullOf(c)) >= QUORUM
           /\ RefusalSeqs(c, "retry") # {})
             => Retried(c, Greatest(RefusalSeqs(c, "retry")) + 1)]_vars

\* C23 (prepare retry rule): the same, for a tally none of whose answers
\* carries a learnt value.
C23_PrepareRetry ==
    [][\A c \in calls :
          (/\ c \notin calls' /\ c.kind = "prepare" /\ ~MANUAL_MODE
           /\ Cardinality(PromisesOf(c)) < QUORUM
           /\ Cardinality(NonNullOf(c)) >= QUORUM
           /\ RefusalSeqs(c, "retry") # {}
           /\ LearntOf(c) = {})
             => Retried(c, Greatest(RefusalSeqs(c, "retry")) + 1)]_vars
\* The prepare with seq 1 and v "x" was answered with retries whose greatest
\* old proposal has seq 1, and the prepare with seq 2 and v "x" is out.
C23_Witness ==
    /\ tallied.call.kind = "prepare" /\ tallied.call.seq = 1 /\ tallied.call.v = "x"
    /\ Cardinality(PromisesOf(tallied.call)) = 1
    /\ RefusalSeqs(tallied.call, "retry") = {1}
    /\ calls = {NewCall(PID, "prepare", tallied.call.t, 2, "x")}

\* The tally of call c ends without any follow-up: no request is out, no
\* learn request is broadcast and no table of any node is written.
NoProgress(c) ==
    /\ tallied'.next = "none"
    /\ calls' = calls \ {c}
    /\ UNCHANGED <<learnt, floods, gossips, proposal>>

\* C24 as stated (no progress below a live majority): a prepare tally with
\* fewer than QUORUM answers that are not nil reports no progress and starts
\* no accept, no learn request and no retry, and writes no learnt value.
C24_NoProgress_AsStated ==
    [][\A c \in calls :
          (/\ c \notin calls' /\ c.kind = "prepare"
           /\ Cardinality(NonNullOf(c)) < QUORUM)
             => NoProgress(c)]_vars

\* C24 (no progress below a live majority): the same, for a tally none of
\* whose answers carries a learnt value.
C24_NoProgress ==
    [][\A c \in calls :
          (/\ c \notin calls' /\ c.kind = "prepare"
           /\ Cardinality(NonNullOf(c)) < QUORUM
           /\ LearntOf(c) = {})
             => NoProgress(c)]_vars
\* A prepare in automatic mode got one retry with a pid and two nil answers:
\* its tally is over and nothing is out.
C24_Witness ==
    /\ tallied.call.kind = "prepare" /\ ~MANUAL_MODE
    /\ Cardinality(NonNullOf(tallied.call)) = 1
    /\ RefusalSeqs(tallied.call, "retry") # {}
    /\ tallied.next = "none"
    /\ calls = {} /\ floods = {}

C26_AcceptDecline_AsStated ==
    [][\A c \in calls :
          (/\ c \notin calls' /\ c.kind = "accept" /\ ~MANUAL_MODE
           /\ Cardinality(AcceptsOf(c)) < QUORUM)
             => IF /\ Cardinality(NonNullOf(c)) >= QUORUM
                   /\ RefusalSeqs(c, "decline") # {}
                THEN Retried(c, Greatest(RefusalSeqs(c, "decline")) + 1)
                ELSE calls' = calls \ {c}]_vars

\* C26 (accept decline rule): the same, the retry being for a tally none of
\* whose answers carries a learnt value.
C26_AcceptDecline ==
    [][\A c \in calls :
          (/\ c \notin calls' /\ c.kind = "accept" /\ ~MANUAL_MODE
           /\ Cardinality(AcceptsOf(c)) < QUORUM)
             => IF /\ Cardinality(NonNullOf(c)) >= QUORUM
                   /\ RefusalSeqs(c, "decline") # {}
                   /\ LearntOf(c) = {}
                THEN Retried(c, Greatest(RefusalSeqs(c, "decline")) + 1)
                ELSE calls' = calls \ {c}]_vars
\* The accept of "x" was answered with an accept and two declines whose
\* greatest old proposal has seq 1, and the prepare with seq 2 and v "x" is
\* out.
C26_Witness ==
    /\ tallied.call.kind = "accept" /\ tallied.call.v = "x"
    /\ Cardinality(AcceptsOf(tallied.call)) = 1
    /\ RefusalSeqs(tallied.call, "decline") = {1}
    /\ calls = {NewCall(PID, "prepare", tallied.call.t, 2, "x")}

\* The answers of call c that agree and those that refuse, and the refusals
\* whose old proposal is the null one.
AgreeingOf(c) == IF c.kind = "prepare" THEN PromisesOf(c) ELSE AcceptsOf(c)
RefusingOf(c) ==
    {a \in NODES : c.resp[a].message = (IF c.kind = "prepare" THEN "retry" ELSE "decline")}
NullRefusalsOf(c) == {a \in RefusingOf(c) : c.resp[a].proposal = EmptyProposal}

\* C27 (null markers in the tally): a nil answer counts neither as an
\* agreement, nor as a refusal, nor as a response, and a retry or decline
\* with the null old proposal is never the highest one: a tally with such
\* answers and no learnt value goes on (accept, learn request) exactly when
\* QUORUM of the other answers agree, and else retries exactly when QUORUM
\* answers are not nil and a refusal carries an old proposal that is not
\* null, with the greatest seq of these plus one.
C27_NullMarkers ==
    [][\A c \in calls :
          (/\ c \notin calls' /\ LearntOf(c) = {}
           /\ (NonNullOf(c) # NODES \/ NullRefusalsOf(c) # {}))
             => LET refusal == IF c.kind = "prepare" THEN "retry" ELSE "decline"
                    quorum == Cardinality(AgreeingOf(c) \cap NonNullOf(c)) >= QUORUM
                    retry == /\ ~quorum
                             /\ Cardinality(NonNullOf(c)) >= QUORUM
                             /\ RefusingOf(c) \ NullRefusalsOf(c) # {}
                IN  /\ tallied'.next \in {"accept", "sendlearn"} <=> quorum
                    /\ tallied'.next = "prepare" <=> retry
                    /\ retry => tallied'.seq = Greatest(RefusalSeqs(c, refusal)) + 1]_vars
\* A prepare answered by nil and two retries with the null old proposal: the
\* tally is over without a retry.
C27_Witness ==
    /\ tallied.call.kind = "prepare" /\ ~MANUAL_MODE
    /\ Cardinality(NonNullOf(tallied.call)) = QUORUM
    /\ Cardinality(NullRefusalsOf(tallied.call)) = QUORUM
    /\ tallied.next = "none"
    /\ calls = {}

\* The tasks that have put their result in the channel.
Delivered == {a \in NODES : channel.sender[a].pc = "done"}

\* C28 (tally termination): every task puts exactly one result in the
\* channel, whose buffer holds one result per node, so that no task ever
\* waits for room, and the tally takes at most one result per node;
\* whichever peers stay silent, the tally returns and every task ends, also
\* when the tally has returned early.
C28_TallyTermination ==
    /\ [](/\ Len(channel.buf) + channel.read = Cardinality(Delivered)
          /\ channel.read <= ChanCap
          /\ \A a \in NODES : channel.sender[a].pc = "send" => Len(channel.buf) < ChanCap)
    /\ <>(channel.tally = "returned")
    /\ <>(Delivered = NODES)
\* The tally has returned on the first answer, which carried a learnt value,
\* and the other two tasks have ended with their results left in the buffer.
C28_Witness ==
    /\ channel.tally = "returned" /\ channel.read = 1
    /\ Delivered = NODES
    /\ Len(channel.buf) = 2

C30_DanglingRevival ==
    [][clientCalls' # clientCalls =>
          \E t \in TurnIDs :
             /\ proposal[PID][t] # <<>> /\ learnt[PID][t] = <<>>
             /\ calls' = calls \cup {NewCall(PID, "prepare", t, proposal[PID][t][1].seq,
                                            proposal[PID][t][1].v)}
             /\ clientCalls' = clientCalls + 1
             /\ UNCHANGED <<proposal, learnt, floods>>]_vars
\* After a tally without follow-up the pass has revived the turn id, whose
\* row holds seq 2 and v "x": the prepare with seq 2 and v "x" is out.
C30_Witness ==
    /\ clientCalls = 1 /\ tallied.next = "none"
    /\ learnt[PID][tallied.call.t] = <<>>
    /\ proposal[PID][tallied.call.t] = <<Proposal(PID, 2, "x")>>
    /\ calls = {NewCall(PID, "prepare", tallied.call.t, 2, "x")}

\* C31 (seeker merge): a write of learnFromDict lands on learnt[t] only when
\* the node's learnt[t] is empty at that moment and the merged value is not
\* empty; a non-empty learnt[t] is never changed by the seeker.
C31_SeekerMerge ==
    [][\A i \in 1..MaxHandlers :
          (/\ Running(i, "SetLearntValue")
           /\ handlers[i].op = "learnFromDict"
           /\ handlers'[i] # handlers[i])
          => /\ learnt' # learnt =>
                   (GetLearntValue(PID, handlers[i].t) = "" /\ handlers[i].p.v # "")
             /\ GetLearntValue(PID, handlers[i].t) # "" =>
                   GetLearntValueIn(learnt', PID, handlers[i].t)
                      = GetLearntValue(PID, handlers[i].t)]_vars


\* The turn ids of the expected answer of node PID to the request req.
C32_Slots(req) ==
    {t \in DOMAIN learnt[PID] : learnt[PID][t] # <<>> /\ t > req.last}
    \cup (IF req.last # 0
          THEN {t \in DOMAIN learnt[PID] :
                   /\ \E i \in 1..Len(req.missing) : req.missing[i] = t
                   /\ GetLearntValue(PID, t) # ""}
          ELSE {})
\* C32 (ComputeNewValuesResponse): the answer to {last, missing} is exactly
\* the map holding every local learnt row whose turn id is greater than last
\* and, when last is not 0, every turn id listed in missing whose local learnt
\* value is not empty; each turn id is mapped to the local learnt value, and
\* answering changes neither the learnt nor the proposal table.
C32_NewValuesResponse ==
    [][lastAnswer' # lastAnswer =>
          /\ DOMAIN lastAnswer'.toLearn = C32_Slots(lastAnswer'.req)
          /\ \A t \in DOMAIN lastAnswer'.toLearn :
                lastAnswer'.toLearn[t] = GetLearntValue(PID, t)
          /\ learnt' = learnt
          /\ proposal' = proposal]_vars
\* An answer to a request with last # 0 that holds a requested turn id not
\* above last and a row above last with the empty value, and leaves out a
\* requested turn id.
C32_Witness ==
    /\ lastAnswer.op = "receive_seek"
    /\ lastAnswer.req.last # 0
    /\ \E t, u \in DOMAIN lastAnswer.toLearn :
          /\ t <= lastAnswer.req.last
          /\ u > lastAnswer.req.last
          /\ lastAnswer.toLearn[u] = ""
    /\ \E i \in 1..Len(lastAnswer.req.missing) :
          lastAnswer.req.missing[i] \notin DOMAIN lastAnswer.toLearn

\* C33 (gossip on first learn): a learn request for a turn id whose learnt
\* value is empty, and whose value the handler stores, is answered `value
\* stored` and leaves one learn request of the learner's own broadcast (type
\* learn_flood, not the proposer's learn_request) for every node.
C33_GossipOnFirstLearn ==
    [][(/\ lastAnswer'.op = "learn"
        /\ GetLearntValue(PID, lastAnswer'.t) = ""
        /\ learnt'[PID][lastAnswer'.t] = <<lastAnswer'.p.v>>)
          => /\ lastAnswer'.body.message = "value stored"
             /\ LearnRequest("learn_flood", lastAnswer'.t, lastAnswer'.p.v) \in floods'
             /\ floods' \ floods \subseteq
                   {LearnRequest("learn_flood", lastAnswer'.t, lastAnswer'.p.v)}
             /\ gossips' = gossips + 1]_vars

\* C37 (learner write failure): a learn request is answered `value stored`,
\* or starts the gossip flood, only if the request's value is in the learnt
\* table after the handler's write.
C37_WriteFailureNotStored ==
    [][(/\ lastAnswer'.op = "learn"
        /\ \/ lastAnswer'.body.message = "value stored"
           \/ floods' # floods
           \/ gossips' # gossips)
          => learnt'[PID][lastAnswer'.t] = <<lastAnswer'.p.v>>]_vars

\* C38 (no empty decision): no learnt row holds the empty value, so a turn id
\* with a proposal row and an empty learnt value is reported by
\* GetDanglingProposals and is not the turn id GetLastTurnID returns.
C38_NoEmptyDecision ==
    \A t \in TurnIDs :
       /\ learnt[PID][t] # <<"">>
       /\ (proposal[PID][t] # <<>> /\ GetLearntValue(PID, t) = "")
             => (t \in GetDanglingProposals(PID) /\ GetLastTurnID(PID) # t)

\* C39 (bounded gossip): of the learn requests a node handles for one turn
\* id, at most one starts the gossip flood, however the handlers interleave.
C39_BoundedGossip ==
    \A t \in TurnIDs :
       Cardinality({i \in 1..MaxHandlers :
                       /\ handlers[i].op = "learn" /\ handlers[i].t = t
                       /\ handlers[i].body.message = "value stored"}) <= 1

\* C34 (learnt values are chosen values): every non-empty learnt value of a
\* node for a turn id is the value of an Accept for that turn id that at
\* least QUORUM acceptors answered `accept`, answered so before the learnt
\* value was written.
C34_LearntIsChosen ==
    \A n \in NODES, t \in TurnIDs :
       GetLearntValue(n, t) # "" => GetLearntValue(n, t) \in chosen[t]
\* Two nodes hold different learnt values for the turn id, and each of the two
\* values was accepted by a quorum.
C34_Witness ==
    \E n1, n2 \in NODES, t \in TurnIDs :
       /\ n1 # n2
       /\ GetLearntValue(n1, t) # "" /\ GetLearntValue(n1, t) \in chosen[t]
       /\ GetLearntValue(n2, t) # "" /\ GetLearntValue(n2, t) \in chosen[t]
       /\ GetLearntValue(n1, t) # GetLearntValue(n2, t)

\* C35 (one value per proposal number): all Accept requests broadcast by a
\* node for a turn id with one proposal number (seq, pid) carry the same
\* value, also when client-triggered prepares and retries of the node overlap.
C35_OneValuePerNumber ==
    \A c1, c2 \in calls :
       (/\ c1.kind = "accept" /\ c2.kind = "accept"
        /\ c1.t = c2.t /\ c1.node = c2.node /\ c1.seq = c2.seq)
          => c1.v = c2.v

\* The non-empty values of the proposal rows prop and the learnt rows lrn.
C36_StoredIn(prop, lrn) ==
    ({prop[n][t][1].v : <<n, t>> \in {x \in NODES \X TurnIDs : prop[x[1]][x[2]] # <<>>}}
     \cup {lrn[n][t][1] : <<n, t>> \in {x \in NODES \X TurnIDs : lrn[x[1]][x[2]] # <<>>}})
    \ {""}
\* The non-empty values the invocations cs (their requests and answers) and
\* the learn requests ms carry.
C36_InFlight(cs, ms) ==
    ({c.v : c \in cs}
     \cup {c.resp[a].proposal.v : <<c, a>> \in cs \X NODES}
     \cup {c.resp[a].learnt : <<c, a>> \in cs \X NODES}
     \cup {m.v : m \in ms})
    \ {""}
\* The V_DEFAULT of every node.
C36_Defaults == {V_DEFAULT(n) : n \in NODES}
====
